---------------------------- MODULE Spec2Model ----------------------------
(***************************************************************************)
(* A model of post_generator.py: the slot dispatcher (main), the candidate *)
(* selectors (fetch_games_from_rawg, fetch_on_this_day_game), the slot     *)
(* handlers and the four persisted history files.                          *)
(*                                                                         *)
(* Text is modelled as a sequence of one-character strings, so that the    *)
(* parsing of the manual override is computed the way Python computes it.  *)
(* Python's None is the empty sequence <<>>, a present value v is <<v>>.   *)
(***************************************************************************)
EXTENDS Integers, Sequences, FiniteSets, TLC

(***************************************************************************)
(* Bounds of the model.                                                    *)
(***************************************************************************)
\* Catalog identifiers are 1..MaxGameId.
MaxGameId == 4
\* Longest result batch a catalog query returns (capped by page_size too).
MaxBatch == 2
\* Most screenshots an item carries.
MaxShots == 3
\* Longest platform list an item carries.
MaxPlatforms == 2
\* Most images handed to create_collage.
MaxImages == 4
\* Most runs of run_slot_1_ad one after the other.
MaxAdRuns == 10
\* Most topic-mode runs of run_generic_q one after the other.
MaxTopicRuns == 6
\* random.choice draws among this many eligible topics (the first of the list).
MaxDraws == 2
\* Identifiers recorded in total under the retention specification.
MaxRecorded == 2006

None == <<>>
Some(v) == <<v>>

Range(s) == {s[i] : i \in 1..Len(s)}

(***************************************************************************)
(* Python string operations used by main() on FORCED_SLOT.                 *)
(***************************************************************************)
Digits == <<"0", "1", "2", "3", "4", "5", "6", "7", "8", "9">>

IsDigit(c) == \E i \in 1..10 : Digits[i] = c

DigitVal(c) == (CHOOSE i \in 1..10 : Digits[i] = c) - 1

IsSpace(c) == c \in {" ", "\t", "\n"}

\* s[i..] starts with sub
StartsAt(s, i, sub) ==
    /\ i + Len(sub) - 1 <= Len(s)
    /\ \A k \in 1..Len(sub) : s[i + k - 1] = sub[k]

\* sub in s
Contains(s, sub) == \E i \in 1..(Len(s) + 1) : StartsAt(s, i, sub)

\* A split that never finds the separator.
SplitHeadWhole(s, sep) == s

\* s.split(sep)[0] for a one-character sep
RECURSIVE SplitHead(_, _)
SplitHead(s, sep) ==
    IF s = <<>> \/ Head(s) = sep THEN <<>>
    ELSE <<Head(s)>> \o SplitHead(Tail(s), sep)

\* s.replace(sub, ""): leftmost non-overlapping occurrences removed
RECURSIVE RemoveAll(_, _)
RemoveAll(s, sub) ==
    IF s = <<>> THEN <<>>
    ELSE IF StartsAt(s, 1, sub) THEN RemoveAll(SubSeq(s, Len(sub) + 1, Len(s)), sub)
    ELSE <<Head(s)>> \o RemoveAll(Tail(s), sub)

RECURSIVE LStrip(_)
LStrip(s) == IF s # <<>> /\ IsSpace(Head(s)) THEN LStrip(Tail(s)) ELSE s

RECURSIVE RStrip(_)
RStrip(s) ==
    IF s # <<>> /\ IsSpace(s[Len(s)]) THEN RStrip(SubSeq(s, 1, Len(s) - 1)) ELSE s

\* s.strip()
Strip(s) == RStrip(LStrip(s))

RECURSIVE DigitsValue(_, _)
DigitsValue(s, acc) ==
    IF s = <<>> THEN acc ELSE DigitsValue(Tail(s), 10 * acc + DigitVal(Head(s)))

\* int(s): Some(n) for an optionally signed run of decimal digits (surrounding
\* whitespace allowed), None where Python raises ValueError.
ParseInt(s) ==
    LET t == Strip(s)
        signed == t # <<>> /\ Head(t) \in {"+", "-"}
        body == IF signed THEN Tail(t) ELSE t
    IN IF body = <<>> \/ \E i \in 1..Len(body) : ~IsDigit(body[i]) THEN None
       ELSE IF signed /\ Head(t) = "-" THEN Some(0 - DigitsValue(body, 0))
       ELSE Some(DigitsValue(body, 0))

KwSlot == <<"S", "l", "o", "t">>
KwAutoDetect == <<"A", "u", "t", "o", "-", "D", "e", "t", "e", "c", "t">>

(***************************************************************************)
(* SCHEDULE: one row per weekday, each row the (hour, slot) pairs in the   *)
(* order the dict literal lists them.                                      *)
(***************************************************************************)
SCHEDULE ==
    << << <<9, 1>>, <<15, 2>>,  <<21, 13>> >>,
       << <<9, 9>>, <<15, 3>>,  <<21, 14>> >>,
       << <<9, 4>>, <<15, 17>>, <<21, 13>> >>,
       << <<9, 6>>, <<15, 18>>, <<21, 14>> >>,
       << <<9, 7>>, <<15, 8>>,  <<21, 13>> >>,
       << <<9, 9>>, <<15, 10>>, <<21, 15>> >>,
       << <<9, 11>>, <<15, 12>>, <<21, 13>> >> >>

\* SCHEDULE.get(day, {})
ScheduleRow(day) == IF day + 1 \in 1..Len(SCHEDULE) THEN SCHEDULE[day + 1] ELSE <<>>

\* A lookup that ignores the hour.
ScheduleGetAnyHour(day, hour) ==
    IF ScheduleRow(day) # <<>> THEN Some(ScheduleRow(day)[1][2]) ELSE None

\* A lookup that falls back to the day's first slot.
ScheduleGetOrFirst(day, hour) ==
    LET row == ScheduleRow(day)
    IN IF \E i \in 1..Len(row) : row[i][1] = hour
       THEN Some(row[CHOOSE i \in 1..Len(row) : row[i][1] = hour][2])
       ELSE IF row # <<>> THEN Some(row[1][2]) ELSE None

\* SCHEDULE.get(day, {}).get(hour)
ScheduleGet(day, hour) ==
    LET row == ScheduleRow(day)
    IN IF \E i \in 1..Len(row) : row[i][1] = hour
       THEN Some(row[CHOOSE i \in 1..Len(row) : row[i][1] = hour][2])
       ELSE None

\* list(SCHEDULE.get(day, {}).values())
TodaysSlots(day) == [i \in 1..Len(ScheduleRow(day)) |-> ScheduleRow(day)[i][2]]


(***************************************************************************)
(* main(): slot resolution and the routine table.                          *)
(***************************************************************************)
\* Lines 734-757: [returned |-> main returns before dispatching, slot_id |-> ...]
ResolveSlot(d, h, manual, forced) ==
    IF manual /\ Contains(forced, KwSlot)
    THEN LET n == ParseInt(RemoveAll(SplitHead(forced, ":"), KwSlot))
         IN [returned |-> n = None, slot_id |-> n]
    ELSE IF manual /\ Contains(forced, KwAutoDetect)
    THEN [returned |-> FALSE,
          slot_id |-> IF TodaysSlots(d) # <<>> THEN Some(TodaysSlots(d)[1]) ELSE None]
    ELSE IF ~manual
    THEN LET s == ScheduleGet(d, h)
         IN [returned |-> (s = None \/ s = Some(0)), slot_id |-> s]
    ELSE [returned |-> FALSE, slot_id |-> None]

Handler(r, t) == [routine |-> r, slot_type |-> t]

\* Lines 762-778: the if/elif chain, None where no branch matches.
RoutineChain(slot) ==
    IF slot = Some(1) THEN Some(Handler("run_slot_1_ad", "-"))
    ELSE IF slot = Some(2) THEN Some(Handler("run_generic_q", "-"))
    ELSE IF slot = Some(3) THEN Some(Handler("run_rivalry", "-"))
    ELSE IF slot = Some(4) THEN Some(Handler("run_single_game_post", "Unpopular"))
    ELSE IF slot = Some(5) THEN Some(Handler("run_fact", "-"))
    ELSE IF slot = Some(6) THEN Some(Handler("run_single_game_post", "Obscure"))
    ELSE IF slot = Some(7) THEN Some(Handler("run_starter_pack", "-"))
    ELSE IF slot = Some(8) THEN Some(Handler("run_generic_q", "-"))
    ELSE IF slot = Some(9) THEN Some(Handler("run_single_game_post", "Aesthetic"))
    ELSE IF slot = Some(10) THEN Some(Handler("run_fact", "-"))
    ELSE IF slot = Some(11) THEN Some(Handler("run_single_game_post", "Memory"))
    ELSE IF slot = Some(12) THEN Some(Handler("run_fact", "-"))
    ELSE IF slot = Some(13) THEN Some(Handler("run_on_this_day", "-"))
    ELSE IF slot = Some(14) THEN Some(Handler("run_fact", "-"))
    ELSE IF slot = Some(15) THEN Some(Handler("run_single_game_post", "Memory"))
    ELSE IF slot = Some(17) THEN Some(Handler("run_generic_q", "-"))
    ELSE IF slot = Some(18) THEN Some(Handler("run_rivalry", "-"))
    ELSE None

\* A chain whose else runs a handler.
RoutineTableWithDefault(slot) ==
    IF RoutineChain(slot) = None THEN Some(Handler("run_fact", "-")) ELSE RoutineChain(slot)

\* A chain that ends at slot 15.
RoutineTableUpTo15(slot) ==
    IF slot \in {Some(17), Some(18)} THEN None ELSE RoutineChain(slot)

\* Lines 762-780: the handler main calls; the else at 779 calls none.
RoutineTable(slot) == RoutineChain(slot)

(***************************************************************************)
(* State.                                                                  *)
(***************************************************************************)
VARIABLES
    history_games,      \* history_games.json: list of game ids
    history_ads,        \* history_ads.json: its last_index (-1 when absent)
    history_questions,  \* history_questions.json: list of topics
    history_facts,      \* history_facts.json: list of game ids
    trigger,            \* what the current run was started with
    slot_id,            \* main's slot_id
    pc,                 \* where the current run is
    invoked,            \* handlers main has called in this run
    routine,            \* the handler now executing
    pair,               \* run_rivalry's pair (index into RIVAL_PAIRS)
    used_games,         \* fetch_games_from_rawg: used_games
    found_games,        \* fetch_games_from_rawg: found_games
    attempt,            \* queries issued by the selector call in progress
    count,              \* fetch_games_from_rawg: count
    fetched,            \* the lists returned by this run's selector calls
    log,                \* this run's completed effects, in order
    raised,             \* an exception left main()
    post,               \* the post this run submitted
    recorded,           \* how many ids the selector has recorded so far
    claude,             \* how the text-generation call of this run ended
    game_platforms,     \* get_platform_tags: the platform names of game_data
    returned_tags,      \* the list get_platform_tags returned
    rendered_tags,      \* the tags a handler rendered into its text, in order
    racers,             \* two overlapping runs of run_single_game_post
    on_disk,            \* the history file a run finds, before load_json reads it
    run_picks,          \* what each run of a handler picked, over the runs
    images,             \* the images passed to image_to_bytes / create_collage
    result              \* what image_to_bytes / create_collage returned

vars == <<history_games, history_ads, history_questions, history_facts,
          trigger, slot_id, pc, invoked, routine, pair, used_games, found_games,
          attempt, count, fetched, log, raised, post, recorded, claude,
          game_platforms, returned_tags, rendered_tags, racers,
          on_disk, run_picks, images, result>>

files == <<history_games, history_ads, history_questions, history_facts>>

fetch_locals == <<used_games, found_games, attempt, count>>

\* What only SpecLoad, SpecAds, SpecTopics and SpecImages move.
late_vars == <<on_disk, run_picks, images, result>>

\* What the specifications of one run leave alone.
side_vars == <<game_platforms, returned_tags, rendered_tags, racers, late_vars>>

NoTrigger == [day |-> 0, hour |-> 0, is_manual |-> FALSE, forced_input |-> <<>>,
              login_ok |-> FALSE]

Init ==
    /\ history_games = <<>>
    /\ history_ads = -1
    /\ history_questions = <<>>
    /\ history_facts = <<>>
    /\ trigger = NoTrigger
    /\ slot_id = None
    /\ pc = "idle"
    /\ invoked = <<>>
    /\ routine = "none"
    /\ pair = 0
    /\ used_games = <<>>
    /\ found_games = <<>>
    /\ attempt = 0
    /\ count = 0
    /\ fetched = <<>>
    /\ log = <<>>
    /\ raised = FALSE
    /\ post = None
    /\ recorded = 0
    /\ claude = "none"
    /\ game_platforms = <<>>
    /\ returned_tags = <<>>
    /\ rendered_tags = <<>>
    /\ racers = <<>>
    /\ on_disk = None
    /\ run_picks = <<>>
    /\ images = <<>>
    /\ result = None

\* Where main() is once it has called nothing, or its handler has returned/raised.
Finished == pc \in {"idle", "done"}

\* Lines 716-782, up to the call of the handler.
Main(t) ==
    /\ Finished
    /\ trigger' = t
    /\ pair' = 0
    /\ used_games' = <<>>
    /\ found_games' = <<>>
    /\ attempt' = 0
    /\ count' = 0
    /\ fetched' = <<>>
    /\ log' = <<>>
    /\ raised' = FALSE
    /\ post' = None
    /\ claude' = "none"
    /\ UNCHANGED <<files, recorded, side_vars>>
    /\ IF ~t.login_ok
       THEN /\ slot_id' = None
            /\ invoked' = <<>>
            /\ routine' = "none"
            /\ pc' = "done"
       ELSE LET r == ResolveSlot(t.day, t.hour, t.is_manual, t.forced_input)
                h == RoutineTable(r.slot_id)
            IN /\ slot_id' = r.slot_id
               /\ IF r.returned \/ h = None
                  THEN /\ invoked' = <<>>
                       /\ routine' = "none"
                       /\ pc' = "done"
                  ELSE /\ invoked' = <<h[1]>>
                       /\ routine' = h[1].routine
                       /\ pc' = h[1].routine

(***************************************************************************)
(* The catalog collaborator: what a query can answer.                      *)
(***************************************************************************)
GameIds == 1..MaxGameId

\* A catalog item as the selectors read it: cand['id'], cand.get('background_image').
Cands == [id : GameIds, background_image : BOOLEAN]

Batches == UNION {[1..n -> Cands] : n \in 0..MaxBatch}

\* requests.get(url).json() of a list query: it raises, or carries 'results'.
QueryResponses ==
    {[ok |-> FALSE, results |-> <<>>]} \cup {[ok |-> TRUE, results |-> b] : b \in Batches}

Min(a, b) == IF a < b THEN a ELSE b

\* The list query of fetch_on_this_day_game, the game random.choice(results[:3])
\* picks, and whether the detail query that follows answers.
OtdResponses ==
    {[ok |-> FALSE, results |-> <<>>, pick |-> 0, detail_ok |-> FALSE]}
    \cup {[ok |-> TRUE, results |-> <<>>, pick |-> 0, detail_ok |-> FALSE]}
    \cup {[ok |-> TRUE, results |-> b, pick |-> k, detail_ok |-> d] :
            b \in Batches \ {<<>>}, k \in 1..Min(3, MaxBatch), d \in BOOLEAN}

(***************************************************************************)
(* fetch_games_from_rawg                                                   *)
(***************************************************************************)
\* range(10) at line 300
QueryAttempts == 10
\* the retention limit at line 318
HistoryCap == 2000

IdsOf(games) == [i \in 1..Len(games) |-> games[i].id]

\* A filter that forgets the loaded history.
IsUnusedInThisCall(cand, used, found) == cand.id \notin Range(IdsOf(found))

\* Line 308: the candidate is neither in the loaded history nor chosen already.
IsUnused(cand, used, found) ==
    cand.id \notin Range(used) /\ cand.id \notin Range(IdsOf(found))

\* A scan that does not stop at count.
RECURSIVE ScanBatchToTheEnd(_, _, _, _)
ScanBatchToTheEnd(results, used, found, cnt) ==
    IF results = <<>> THEN found
    ELSE LET cand == Head(results)
         IN IF IsUnused(cand, used, found) /\ cand.background_image
            THEN ScanBatchToTheEnd(Tail(results), used, Append(found, cand), cnt)
            ELSE ScanBatchToTheEnd(Tail(results), used, found, cnt)

\* Lines 307-311: the scan of one result batch.
RECURSIVE ScanBatch(_, _, _, _)
ScanBatch(results, used, found, cnt) ==
    IF results = <<>> THEN found
    ELSE LET cand == Head(results)
         IN IF IsUnused(cand, used, found) /\ cand.background_image
            THEN IF Len(found) + 1 = cnt THEN Append(found, cand)
                 ELSE ScanBatch(Tail(results), used, Append(found, cand), cnt)
            ELSE ScanBatch(Tail(results), used, found, cnt)

\* A cut that keeps the oldest entries.
ExtendHistoryKeepOldest(used, new_ids) ==
    LET ext == used \o new_ids
    IN IF Len(ext) > HistoryCap THEN SubSeq(ext, 1, HistoryCap) ELSE ext

\* Lines 316-318: used_games.extend(new_ids), cut to the last 2000.
ExtendHistory(used, new_ids) ==
    LET ext == used \o new_ids
    IN IF Len(ext) > HistoryCap
       THEN SubSeq(ext, Len(ext) - HistoryCap + 1, Len(ext))
       ELSE ext

\* The count each handler asks the selector for (lines 447, 448, 496, 561, 677).
CountFor(caller) == IF caller = "run_starter_pack" THEN 4 ELSE 1

\* run_starter_pack content with three games.
AfterFetchStarterOfThree(caller, lists) ==
    LET got == lists[Len(lists)]
    IN IF caller = "run_rivalry" THEN "run_rivalry_p2"
       ELSE IF caller = "run_rivalry_p2"
       THEN IF lists[1] = <<>> \/ got = <<>> THEN "done" ELSE "post_rivalry"
       ELSE IF caller = "run_starter_pack"
       THEN IF Len(got) < 3 THEN "done" ELSE "post_starter_pack"
       ELSE IF got = <<>> THEN "done"
       ELSE IF caller = "run_fact" THEN "post_fact" ELSE "post_single_game"

\* Where the handler goes on once the selector has returned `got`
\* (lines 449, 497, 562, 678).
AfterFetch(caller, lists) ==
    LET got == lists[Len(lists)]
    IN IF caller = "run_rivalry" THEN "run_rivalry_p2"
       ELSE IF caller = "run_rivalry_p2"
       THEN IF lists[1] = <<>> \/ got = <<>> THEN "done" ELSE "post_rivalry"
       ELSE IF caller = "run_starter_pack"
       THEN IF Len(got) < 4 THEN "done" ELSE "post_starter_pack"
       ELSE IF got = <<>> THEN "done"
       ELSE IF caller = "run_fact" THEN "post_fact" ELSE "post_single_game"

FetchCallers == {"run_rivalry", "run_rivalry_p2", "run_single_game_post", "run_fact",
                 "run_starter_pack"}

\* Lines 292-293 (and 446 on entry to run_rivalry): the call loads the history.
FetchLoad(p) ==
    /\ pc \in FetchCallers
    /\ IF pc = "run_rivalry" THEN pair' = p ELSE pair' = pair
    /\ used_games' = history_games
    /\ found_games' = <<>>
    /\ attempt' = 0
    /\ count' = CountFor(pc)
    /\ pc' = "fetch"
    /\ UNCHANGED <<files, trigger, side_vars, claude, recorded, slot_id,
                   invoked, routine, fetched, log,
                   raised, post>>

\* Lines 305-313: found_games after one query answered resp.
AfterQuery(resp, used, found, cnt) ==
    IF resp.ok THEN ScanBatch(resp.results, used, found, cnt) ELSE found

\* A loop with no limit on its turns.
FetchQueryUnlimited ==
    /\ pc = "fetch"
    /\ Len(found_games) < count
    /\ attempt' = attempt + 1
    /\ found_games' \in {AfterQuery(resp, used_games, found_games, count) :
                            resp \in QueryResponses}
    /\ UNCHANGED <<files, trigger, side_vars, claude, recorded, slot_id, pc,
                   invoked, routine, pair, used_games, count, fetched, log,
                   raised, post>>

\* Lines 300-313: one turn of the loop, with any answer of the catalog.
FetchQuery ==
    /\ pc = "fetch"
    /\ attempt < QueryAttempts
    /\ Len(found_games) < count
    /\ attempt' = attempt + 1
    /\ found_games' \in {AfterQuery(resp, used_games, found_games, count) :
                            resp \in QueryResponses}
    /\ UNCHANGED <<files, trigger, side_vars, claude, recorded, slot_id, pc,
                   invoked, routine, pair,
                   used_games, count, fetched, log, raised, post>>

\* The handler the selector call in progress returns to.
Caller == IF routine = "run_rivalry" /\ Len(fetched) = 1 THEN "run_rivalry_p2"
          ELSE routine

\* Lines 315-321: the loop is over; record what was found and return it (the
\* call's locals are gone once it has returned).
FetchReturn ==
    /\ pc = "fetch"
    /\ attempt = QueryAttempts \/ Len(found_games) >= count
    /\ IF found_games # <<>>
       THEN /\ history_games' = ExtendHistory(used_games, IdsOf(found_games))
            /\ recorded' = recorded + Len(found_games)
            /\ log' = Append(log, "save_games")
       ELSE UNCHANGED <<history_games, recorded, log>>
    /\ fetched' = Append(fetched, found_games)
    /\ pc' = AfterFetch(Caller, fetched')
    /\ used_games' = <<>>
    /\ found_games' = <<>>
    /\ attempt' = 0
    /\ count' = 0
    /\ UNCHANGED <<history_ads, history_questions, history_facts, trigger,
                   side_vars, claude,
                   slot_id, invoked, routine, pair, raised, post>>

(***************************************************************************)
(* fetch_on_this_day_game                                                  *)
(***************************************************************************)
\* range(5) at line 332
OtdAttempts == 5

\* Lines 339-351: what one turn of the loop returns, None to go round again.
OtdTurn(resp) ==
    IF ~resp.ok \/ resp.results = <<>> THEN None
    ELSE LET top == SubSeq(resp.results, 1, Min(3, Len(resp.results)))
             game == top[Min(resp.pick, Len(top))]
         IN IF game.background_image /\ resp.detail_ok THEN Some(game) ELSE None

\* Lines 622 and 332-353: one turn of the selector's loop, with any answer of
\* the catalog.
OnThisDayQuery ==
    /\ pc = "run_on_this_day"
    /\ attempt < OtdAttempts
    /\ \E got \in {OtdTurn(resp) : resp \in OtdResponses} :
          IF got = None
          THEN /\ attempt' = attempt + 1
               /\ UNCHANGED <<fetched, pc>>
          ELSE /\ attempt' = 0
               /\ fetched' = <<got>>
               /\ pc' = "post_on_this_day"
    /\ UNCHANGED <<files, trigger, side_vars, claude, recorded, slot_id,
                   invoked, routine, pair, used_games,
                   found_games, count, log, raised, post>>

\* Lines 355 and 623-626: no game found, run_fact is called instead.
OnThisDayFallback ==
    /\ pc = "run_on_this_day"
    /\ attempt = OtdAttempts
    /\ attempt' = 0
    /\ routine' = "run_fact"
    /\ pc' = "run_fact"
    /\ UNCHANGED <<files, trigger, side_vars, claude, recorded, slot_id,
                   invoked, pair, used_games, found_games,
                   count, fetched, log, raised, post>>

(***************************************************************************)
(* get_platform_tags                                                       *)
(***************************************************************************)
\* The dict at lines 142-150, as (key, tag) pairs in insertion order.
PLATFORM_TAGS ==
    << <<<<"P", "l", "a", "y", "S", "t", "a", "t", "i", "o", "n">>,
         <<"#", "P", "S", "1">>>>,
       <<<<"P", "l", "a", "y", "S", "t", "a", "t", "i", "o", "n", " ", "2">>,
         <<"#", "P", "S", "2">>>>,
       <<<<"P", "l", "a", "y", "S", "t", "a", "t", "i", "o", "n", " ", "3">>,
         <<"#", "P", "S", "3">>>>,
       <<<<"X", "b", "o", "x">>,
         <<"#", "X", "b", "o", "x">>>>,
       <<<<"X", "b", "o", "x", " ", "3", "6", "0">>,
         <<"#", "X", "b", "o", "x", "3", "6", "0">>>>,
       <<<<"S", "N", "E", "S">>,
         <<"#", "S", "N", "E", "S">>>>,
       <<<<"N", "E", "S">>,
         <<"#", "N", "E", "S">>>>,
       <<<<"N", "i", "n", "t", "e", "n", "d", "o", " ", "6", "4">>,
         <<"#", "N", "6", "4">>>>,
       <<<<"G", "a", "m", "e", "C", "u", "b", "e">>,
         <<"#", "G", "a", "m", "e", "C", "u", "b", "e">>>>,
       <<<<"G", "a", "m", "e", " ", "B", "o", "y">>,
         <<"#", "G", "a", "m", "e", "B", "o", "y">>>>,
       <<<<"G", "a", "m", "e", " ", "B", "o", "y", " ", "A", "d", "v", "a", "n", "c", "e">>,
         <<"#", "G", "B", "A">>>>,
       <<<<"G", "a", "m", "e", " ", "B", "o", "y", " ", "C", "o", "l", "o", "r">>,
         <<"#", "G", "a", "m", "e", "B", "o", "y", "C", "o", "l", "o", "r">>>>,
       <<<<"S", "e", "g", "a", " ", "G", "e", "n", "e", "s", "i", "s">>,
         <<"#", "S", "e", "g", "a", "G", "e", "n", "e", "s", "i", "s">>>>,
       <<<<"D", "r", "e", "a", "m", "c", "a", "s", "t">>,
         <<"#", "D", "r", "e", "a", "m", "c", "a", "s", "t">>>>,
       <<<<"S", "e", "g", "a", " ", "S", "a", "t", "u", "r", "n">>,
         <<"#", "S", "e", "g", "a", "S", "a", "t", "u", "r", "n">>>>,
       <<<<"S", "e", "g", "a", " ", "C", "D">>,
         <<"#", "S", "e", "g", "a", "C", "D">>>>,
       <<<<"S", "e", "g", "a", " ", "3", "2", "X">>,
         <<"#", "S", "e", "g", "a", "3", "2", "X">>>>,
       <<<<"N", "e", "o", " ", "G", "e", "o">>,
         <<"#", "N", "e", "o", "G", "e", "o">>>>,
       <<<<"T", "u", "r", "b", "o", "G", "r", "a", "f", "x", "-", "1", "6">>,
         <<"#", "T", "u", "r", "b", "o", "G", "r", "a", "f", "x", "1", "6">>>>,
       <<<<"P", "C">>,
         <<"#", "P", "C", "G", "a", "m", "i", "n", "g">>>> >>

TagRetroGaming == <<"#", "R", "e", "t", "r", "o", "G", "a", "m", "i", "n", "g">>
TagPCGaming == <<"#", "P", "C", "G", "a", "m", "i", "n", "g">>

\* Platform names the catalog may list for an item: exact keys, a name that only
\* contains a key ("Xbox One") and a name that matches no key ("Genesis").
PlatformNames ==
    { <<"P", "C">>,
      <<"P", "l", "a", "y", "S", "t", "a", "t", "i", "o", "n">>,
      <<"P", "l", "a", "y", "S", "t", "a", "t", "i", "o", "n", " ", "2">>,
      <<"X", "b", "o", "x", " ", "O", "n", "e">>,
      <<"G", "e", "n", "e", "s", "i", "s">> }

\* Lines 267-274: the tag one platform name contributes, None if it matches no key.
TagOfPlatform(name) ==
    IF \E i \in 1..Len(PLATFORM_TAGS) : PLATFORM_TAGS[i][1] = name
    THEN Some(PLATFORM_TAGS[CHOOSE i \in 1..Len(PLATFORM_TAGS) :
                               PLATFORM_TAGS[i][1] = name][2])
    ELSE IF \E i \in 1..Len(PLATFORM_TAGS) : Contains(name, PLATFORM_TAGS[i][1])
    THEN LET first == CHOOSE i \in 1..Len(PLATFORM_TAGS) :
                        /\ Contains(name, PLATFORM_TAGS[i][1])
                        /\ \A j \in 1..(i - 1) : ~Contains(name, PLATFORM_TAGS[j][1])
         IN Some(PLATFORM_TAGS[first][2])
    ELSE None

\* Lines 261-274: found_tags after the loop over the item's platforms.
RECURSIVE FoundTags(_)
FoundTags(platforms) ==
    IF platforms = <<>> THEN <<>>
    ELSE TagOfPlatform(Head(platforms)) \o FoundTags(Tail(platforms))

\* The orders list(set(...)) can give a set of strings: any.
Orderings(S) ==
    {f \in [1..Cardinality(S) -> S] : \A i, j \in 1..Cardinality(S) : f[i] = f[j] => i = j}

\* A move that is never made.
MovePCLastNever(tags) == tags

\* Lines 280-282: #PCGaming is moved to the end when other tags exist.
MovePCLast(tags) ==
    IF TagPCGaming \in Range(tags) /\ Len(tags) > 1
    THEN SelectSeq(tags, LAMBDA t : t # TagPCGaming) \o <<TagPCGaming>>
    ELSE tags

\* Lines 255-289: the lists get_platform_tags can return for a platform list.
GetPlatformTags(platforms) ==
    LET found == Range(FoundTags(platforms))
    IN IF found = {} THEN {<<TagRetroGaming>>}
       ELSE {SubSeq(MovePCLast(o), 1, Min(2, Len(o))) : o \in Orderings(found)}

(***************************************************************************)
(* Text generation and the text of a post.  Only lengths matter here; a    *)
(* literal of the source is written out and measured with Len, an emoji of *)
(* the source is written "*" (one character).                              *)
(***************************************************************************)
\* What the text-generation collaborator does with one prompt: no API key, an
\* exception, or a text of raw_len characters of which `removed` are stripped
\* (surrounding whitespace, '#', quotation marks).
ClaudeResponses ==
    {[configured |-> FALSE, ok |-> FALSE, raw_len |-> 0, removed |-> 0],
     [configured |-> TRUE, ok |-> FALSE, raw_len |-> 0, removed |-> 0]}
    \cup {[configured |-> TRUE, ok |-> TRUE, raw_len |-> n, removed |-> 0] :
            n \in {0, 240, 305}}
    \cup {[configured |-> TRUE, ok |-> TRUE, raw_len |-> 305, removed |-> 5]}

\* Lines 189-202: None, or the cleaned text (its length).
GetClaudeText(resp) ==
    IF ~resp.configured THEN None
    ELSE IF ~resp.ok THEN None
    ELSE Some(resp.raw_len - resp.removed)

\* An `or` that leaves the caption empty.
TextOrNothing(text, fallback) == IF text = None \/ text = Some(0) THEN 0 ELSE text[1]

\* `get_claude_text(prompt) or fallback`: None and "" both give the fallback.
TextOr(text, fallback) == IF text = None \/ text = Some(0) THEN fallback ELSE text[1]

\* Lengths of the item names the catalog may carry.
NameLens == {4, 40}

RECURSIVE TagsLen(_)
\* `tb.tag(tag, ...); tb.text(" ")` for each tag of a list
TagsLen(tags) == IF tags = <<>> THEN 0 ELSE Len(Head(tags)) + 1 + TagsLen(Tail(tags))

\* Lines 500-505: cfg['tag']
CfgTagLen(slot_type) ==
    IF slot_type = "Unpopular" THEN Len("#UnpopularOpinion")
    ELSE IF slot_type = "Obscure" THEN Len("#HiddenGem")
    ELSE IF slot_type = "Aesthetic" THEN Len("#RetroAesthetics")
    ELSE 0

BaseTagsLen == Len("#Retro") + 1 + Len("#RetroGaming") + 1

\* Lines 509 and 538-555: the text run_single_game_post builds.
SingleTextLen(slot_type, text, name_len, link_roll, plat_tags) ==
    TextOr(text, Len("Remember ?") + name_len) + Len("\n\n")
    + (IF slot_type = "Obscure" /\ link_roll
       THEN Len("Uncovered in the Archive. * Search your favorites: ")
            + Len("nostalgia.icu/database") + Len("\n\n")
       ELSE 0)
    + BaseTagsLen + TagsLen(plat_tags) + CfgTagLen(slot_type)

\* Lines 161-168: the lengths of FACT_INTROS
FactIntroLens == {Len("Did you know?"), Len("Retro Fact:"), Len("Gaming History:"),
                  Len("Fun Fact:"), Len("Trivia Time:"), Len("Classic Gaming Fact:")}

\* Lines 567 and 589-605: the text run_fact builds.
FactTextLen(intro_len, text, name_len, link_roll, plat_tags) ==
    intro_len + Len(" *\n\n")
    + TextOr(text, Len("Did you know  is considered a classic?") + name_len)
    + Len("\n\n")
    + (IF link_roll
       THEN Len("More gaming history: ") + Len("nostalgia.icu/history") + Len("\n\n")
       ELSE 0)
    + BaseTagsLen + TagsLen(plat_tags) + Len("#FunFact")

\* Lines 630 and 658-671: the text run_on_this_day builds (a four-digit year).
OnThisDayTextLen(text, name_len, plat_tags) ==
    Len("* On This Day (1999)\n\n")
    + TextOr(text, Len("On this day in 1999,  was released!") + name_len)
    + Len("\n\n")
    + Len("See what else launched today: ") + Len("nostalgia.icu/history") + Len("\n\n")
    + BaseTagsLen + TagsLen(plat_tags) + Len("#OnThisDay")

\* Lines 170-175: RIVAL_PAIRS, the lengths of t1 and t2
RivalTagLens ==
    << <<Len("#PS1"), Len("#N64")>>, <<Len("#PS2"), Len("#Xbox")>>,
       <<Len("#SNES"), Len("#Sega")>>, <<Len("#Dreamcast"), Len("#PS2")>> >>

\* Lines 453 and 485-490: the text run_rivalry builds.
RivalryTextLen(p, text, name1_len, name2_len) ==
    TextOr(text, Len(" vs . Which one did you play?") + name1_len + name2_len)
    + Len("\n\n") + BaseTagsLen + RivalTagLens[p][1] + 1 + RivalTagLens[p][2]

\* Lines 680 and 706-710: the text run_starter_pack builds.
StarterTextLen(text) ==
    TextOr(text, Len("One has to go. Which one do you choose?"))
    + Len("\n\n") + BaseTagsLen + Len("#GamingSetup")

\* Lines 135-139: the lengths of GENERIC_TOPICS
TopicLens == <<12, 11, 11, 17, 10, 19, 11, 11, 15, 17, 19, 15, 11, 11, 11>>

\* Lines 153-159 and 402-410: the length of console_name for each CONSOLE_IMAGES entry
ConsoleNameLens == <<35, 35, 11, 8, 3, 3, 4, 35, 14, 11, 13, 7, 6, 3, 3>>

\* Lines 435-440: the text run_generic_q builds around topic_text.
GenericTextLen(text, topic_text_len) ==
    TextOr(text, Len("What's your take on ?") + topic_text_len)
    + Len("\n\n") + Len("#Retro") + 1 + Len("#RetroGaming")

\* Lines 44-133: for each of MONDAY_FEATURES the lengths of its texts, of its
\* url and of its tags.
MONDAY_FEATURES ==
    << [texts |-> <<114, 97, 90>>,  url |-> 34, tags |-> <<6, 12, 10, 8>>],
       [texts |-> <<118, 98, 101>>, url |-> 32, tags |-> <<6, 12, 10, 8>>],
       [texts |-> <<110, 102, 95>>, url |-> 32, tags |-> <<6, 12, 10, 6>>],
       [texts |-> <<100, 99, 88>>,  url |-> 34, tags |-> <<6, 12, 10, 8>>],
       [texts |-> <<112, 94, 92>>,  url |-> 32, tags |-> <<6, 12, 10, 6>>],
       [texts |-> <<93, 94, 104>>,  url |-> 34, tags |-> <<6, 12, 10, 14>>],
       [texts |-> <<103, 93, 86>>,  url |-> 35, tags |-> <<6, 12, 10, 7>>],
       [texts |-> <<90, 85, 88>>,   url |-> 32, tags |-> <<6, 12, 10, 9>>] >>

RECURSIVE SumPlusOne(_)
SumPlusOne(lens) == IF lens = <<>> THEN 0 ELSE Head(lens) + 1 + SumPlusOne(Tail(lens))

\* Lines 366-374: the text run_slot_1_ad builds for feature idx (0-based).
AdTextLen(idx, message) ==
    LET feature == MONDAY_FEATURES[idx + 1]
    IN feature.texts[message] + Len("\n\n* Visit: ") + feature.url + Len("\n\n")
       + SumPlusOne(feature.tags)

(***************************************************************************)
(* Images: downloads and uploads.                                          *)
(***************************************************************************)
\* A screenshot entry: its url differs from the main image's ("ok", "fail": how
\* its download ends) or is the same url ("same_ok", "same_fail").
ShotKinds == {"ok", "fail", "same_ok", "same_fail"}

ShotLists == UNION {[1..n -> ShotKinds] : n \in 0..MaxShots}

\* Lines 519-527 (and 641-649): images the screenshot loop adds.
RECURSIVE ScreensAdded(_, _)
ScreensAdded(shots, added) ==
    IF shots = <<>> \/ added >= 2 THEN added
    ELSE IF Head(shots) \in {"same_ok", "same_fail"} THEN ScreensAdded(Tail(shots), added)
    ELSE IF Head(shots) = "ok" THEN ScreensAdded(Tail(shots), added + 1)
    ELSE ScreensAdded(Tail(shots), added)

\* Lines 216-222 followed by download_image: whether an image comes back.
DistinctShot(shots) ==
    IF shots = <<>> THEN FALSE
    ELSE IF \E i \in 1..Len(shots) : shots[i] \in {"ok", "fail"}
    THEN shots[CHOOSE i \in 1..Len(shots) :
                 /\ shots[i] \in {"ok", "fail"}
                 /\ \A j \in 1..(i - 1) : shots[j] \notin {"ok", "fail"}] = "ok"
    ELSE shots[1] = "same_ok"

B2N(b) == IF b THEN 1 ELSE 0

\* Every uploaded image appended twice.
UploadsAppendedTwice(wanted, fail_at) ==
    IF fail_at \in 1..wanted
    THEN [images |-> 2 * (fail_at - 1), raised |-> TRUE]
    ELSE [images |-> 2 * wanted, raised |-> FALSE]

\* bsky.upload_blob is called `wanted` times; call number fail_at raises (0: none).
Uploads(wanted, fail_at) ==
    IF fail_at \in 1..wanted
    THEN [images |-> fail_at - 1, raised |-> TRUE]
    ELSE [images |-> wanted, raised |-> FALSE]

FailAt == 0..4

\* Lines 511-534 (and 632-654): imgs_to_upload of run_single_game_post, run_on_this_day.
SingleImages ==
    {Uploads(B2N(main_ok) + ScreensAdded(shots, 0) + B2N(promo), f) :
        main_ok \in BOOLEAN, shots \in ShotLists, promo \in BOOLEAN, f \in FailAt}

\* Lines 569-585: imgs_to_upload of run_fact.
FactImages ==
    {Uploads(B2N(main_ok) + B2N(DistinctShot(shots)) + B2N(promo), f) :
        main_ok \in BOOLEAN, shots \in ShotLists, promo \in BOOLEAN, f \in FailAt}

\* Lines 455-483: imgs_to_upload of run_rivalry.
RivalryImages ==
    {Uploads(B2N(i1 /\ i2) + B2N(s1) + B2N(s2) + B2N(promo), f) :
        i1 \in BOOLEAN, i2 \in BOOLEAN,
        s1 \in {DistinctShot(sh) : sh \in ShotLists},
        s2 \in {DistinctShot(sh) : sh \in ShotLists},
        promo \in BOOLEAN, f \in FailAt}

\* Lines 682-704: imgs_to_upload of run_starter_pack.
StarterImages ==
    {Uploads(B2N(\A k \in 1..4 : dl[k]) + B2N(s1) + B2N(s2) + B2N(promo), f) :
        dl \in [1..4 -> BOOLEAN],
        s1 \in {DistinctShot(sh) : sh \in ShotLists},
        s2 \in {DistinctShot(sh) : sh \in ShotLists},
        promo \in BOOLEAN, f \in FailAt}

(***************************************************************************)
(* The texts each handler can end up with.                                 *)
(***************************************************************************)
PlatformLists == UNION {[1..n -> PlatformNames] : n \in 0..MaxPlatforms}

PlatTagLists == UNION {GetPlatformTags(pl) : pl \in PlatformLists}

Texts == {GetClaudeText(resp) : resp \in ClaudeResponses}

\* How a call of get_claude_text ended: line 190, line 200, a text that is
\* empty once cleaned, a text.
ClaudeKind(resp) ==
    IF ~resp.configured THEN "unconfigured"
    ELSE IF ~resp.ok THEN "raises"
    ELSE IF resp.raw_len - resp.removed = 0 THEN "empty"
    ELSE "text"

ClaudeKinds == {ClaudeKind(resp) : resp \in ClaudeResponses}

\* What get_claude_text returns in the calls that end as kind k.
TextsOf(k) == {GetClaudeText(resp) : resp \in {r \in ClaudeResponses : ClaudeKind(r) = k}}

SlotTypes == {"Unpopular", "Obscure", "Aesthetic", "Memory"}

\* Each of the following gives, for every way the text-generation call can
\* end, the lengths the handler's text can have.
SingleTexts ==
    [t \in SlotTypes |->
        [k \in ClaudeKinds |->
            {SingleTextLen(t, text, n, link, tl) :
                text \in TextsOf(k), n \in NameLens, link \in BOOLEAN,
                tl \in PlatTagLists}]]

FactTexts ==
    [k \in ClaudeKinds |->
        {FactTextLen(i, text, n, link, tl) :
            i \in FactIntroLens, text \in TextsOf(k), n \in NameLens, link \in BOOLEAN,
            tl \in PlatTagLists}]

OnThisDayTexts ==
    [k \in ClaudeKinds |->
        {OnThisDayTextLen(text, n, tl) :
            text \in TextsOf(k), n \in NameLens, tl \in PlatTagLists}]

RivalryTexts ==
    [p \in 1..Len(RivalTagLens) |->
        [k \in ClaudeKinds |->
            {RivalryTextLen(p, text, n1, n2) :
                text \in TextsOf(k), n1 \in NameLens, n2 \in NameLens}]]

StarterTexts == [k \in ClaudeKinds |-> {StarterTextLen(text) : text \in TextsOf(k)}]

(***************************************************************************)
(* The slot handlers, from the point where their candidates are selected.  *)
(***************************************************************************)
Posted(text_len, n_images, games) ==
    Some([text_len |-> text_len, images |-> n_images, ids |-> IdsOf(games)])

\* bsky.send_post at the end of a handler whose uploads ended as img: an upload
\* or the submission raises and the exception leaves main(), or the post is
\* submitted with the first `cap` images.
Submit(text_len, img, send_ok, cap, games) ==
    /\ raised' = (img.raised \/ ~send_ok)
    /\ post' = IF img.raised \/ ~send_ok THEN None
               ELSE Posted(text_len, Min(img.images, cap), games)
    /\ log' = IF img.raised \/ ~send_ok THEN log ELSE Append(log, "send_post")

\* Lines 499-558.
PostSingleGame ==
    /\ pc = "post_single_game"
    /\ \E k \in ClaudeKinds :
        /\ claude' = k
        /\ \E text_len \in SingleTexts[invoked[1].slot_type][k], img \in SingleImages,
              send_ok \in BOOLEAN :
                Submit(text_len, img, send_ok, 4, fetched[1])
    /\ pc' = "done"
    /\ UNCHANGED <<files, trigger, side_vars, recorded, slot_id, invoked,
                   routine, pair,
                   fetch_locals, fetched>>

\* Lines 563-615.
PostFact ==
    /\ pc = "post_fact"
    /\ LET game == fetched[Len(fetched)][1]
       IN \E k \in ClaudeKinds, img \in FactImages, send_ok \in BOOLEAN :
          \E text_len \in FactTexts[k] :
            /\ claude' = k
            /\ raised' = (img.raised \/ ~send_ok)
            /\ IF img.raised \/ ~send_ok
               THEN /\ post' = None
                    /\ UNCHANGED <<log, history_facts>>
               ELSE /\ post' = Posted(text_len, img.images, <<game>>)
                    /\ history_facts' = Append(history_facts, game.id)
                    /\ log' = log \o <<"send_post", "save_facts">>
    /\ pc' = "done"
    /\ UNCHANGED <<history_games, history_ads, history_questions, trigger,
                   side_vars, recorded,
                   slot_id, invoked, routine, pair, fetch_locals, fetched>>

\* Lines 628-674.
PostOnThisDay ==
    /\ pc = "post_on_this_day"
    /\ \E k \in ClaudeKinds :
        /\ claude' = k
        /\ \E text_len \in OnThisDayTexts[k], img \in SingleImages, send_ok \in BOOLEAN :
                Submit(text_len, img, send_ok, 4, fetched[1])
    /\ pc' = "done"
    /\ UNCHANGED <<files, trigger, side_vars, recorded, slot_id, invoked,
                   routine, pair,
                   fetch_locals, fetched>>

\* Lines 450-493.
PostRivalry ==
    /\ pc = "post_rivalry"
    /\ \E k \in ClaudeKinds :
        /\ claude' = k
        /\ \E text_len \in RivalryTexts[pair][k], img \in RivalryImages,
              send_ok \in BOOLEAN :
                Submit(text_len, img, send_ok, 4, fetched[1] \o fetched[2])
    /\ pc' = "done"
    /\ UNCHANGED <<files, trigger, side_vars, recorded, slot_id, invoked,
                   routine, pair,
                   fetch_locals, fetched>>

\* Lines 679-713.
PostStarterPack ==
    /\ pc = "post_starter_pack"
    /\ \E k \in ClaudeKinds :
        /\ claude' = k
        /\ \E text_len \in StarterTexts[k], img \in StarterImages, send_ok \in BOOLEAN :
                Submit(text_len, img, send_ok, 4, fetched[1])
    /\ pc' = "done"
    /\ UNCHANGED <<files, trigger, side_vars, recorded, slot_id, invoked,
                   routine, pair,
                   fetch_locals, fetched>>

(***************************************************************************)
(* run_slot_1_ad                                                           *)
(***************************************************************************)
\* A rotation that never reaches the last feature.
AdIndexShortCycle(last_index) == (last_index + 1) % (Len(MONDAY_FEATURES) - 1)

\* Line 360: the feature this run advertises.
AdIndex(last_index) == (last_index + 1) % Len(MONDAY_FEATURES)

\* Lines 382-385: send_post has returned.
AdPosted(img_exists, upload_ok, send_ok) == img_exists /\ upload_ok /\ send_ok

\* The index saved before the upload.
AdSavedBeforeUpload(img_exists, upload_ok, send_ok) == img_exists

\* Line 386 is reached.
AdSaved(img_exists, upload_ok, send_ok) == AdPosted(img_exists, upload_ok, send_ok)

\* Lines 358-387.
RunSlot1Ad ==
    /\ pc = "run_slot_1_ad"
    /\ \E message \in 1..3, img_exists \in BOOLEAN, upload_ok \in BOOLEAN,
          send_ok \in BOOLEAN :
        LET idx == AdIndex(history_ads)
        IN /\ raised' = (img_exists /\ ~(upload_ok /\ send_ok))
           /\ post' = IF AdPosted(img_exists, upload_ok, send_ok)
                      THEN Posted(AdTextLen(idx, message), 1, <<>>) ELSE None
           /\ history_ads' = IF AdSaved(img_exists, upload_ok, send_ok)
                             THEN idx ELSE history_ads
           /\ log' = (IF AdPosted(img_exists, upload_ok, send_ok)
                      THEN <<"send_post">> ELSE <<>>)
                     \o (IF AdSaved(img_exists, upload_ok, send_ok)
                         THEN <<"save_ads">> ELSE <<>>)
    /\ pc' = "done"
    /\ UNCHANGED <<history_games, history_questions, history_facts, trigger,
                   side_vars, claude, recorded,
                   slot_id, invoked, routine, pair, fetch_locals, fetched>>

(***************************************************************************)
(* run_generic_q                                                           *)
(***************************************************************************)
LastN(s, n) == IF Len(s) > n THEN SubSeq(s, Len(s) - n + 1, Len(s)) ELSE s

\* A filter on the last four topics only.
EligibleTopicsLastFour(used_q) ==
    {t \in 1..Len(TopicLens) : t \notin Range(LastN(used_q, 4))}

\* Line 421: the topics (indices into GENERIC_TOPICS) random.choice draws from.
EligibleTopics(used_q) == {t \in 1..Len(TopicLens) : t \notin Range(LastN(used_q, 5))}

\* Lines 389-443; the upload (lines 416, 428) comes before get_claude_text
\* (line 435), which is not called when the upload raises.
RunGenericQ ==
    /\ pc = "run_generic_q"
    /\ \E has_images \in BOOLEAN, roll \in BOOLEAN, upload_ok \in BOOLEAN,
          k \in ClaudeKinds, send_ok \in BOOLEAN :
      \E text \in TextsOf(k) :
        IF has_images /\ roll
        THEN \E c \in 1..Len(ConsoleNameLens) :
               /\ raised' = ~(upload_ok /\ send_ok)
               /\ post' = IF upload_ok /\ send_ok
                          THEN Posted(GenericTextLen(text, Len("the ") + ConsoleNameLens[c]),
                                      1, <<>>)
                          ELSE None
               /\ log' = IF upload_ok /\ send_ok THEN <<"send_post">> ELSE <<>>
               /\ claude' = IF upload_ok THEN k ELSE "none"
               /\ UNCHANGED history_questions
        ELSE \E topic \in EligibleTopics(history_questions) :
               IF has_images /\ ~upload_ok
               THEN /\ raised' = TRUE
                    /\ post' = None
                    /\ log' = <<>>
                    /\ claude' = "none"
                    /\ UNCHANGED history_questions
               ELSE /\ history_questions' = LastN(Append(history_questions, topic), 50)
                    /\ claude' = k
                    /\ raised' = ~send_ok
                    /\ post' = IF send_ok
                               THEN Posted(GenericTextLen(text, TopicLens[topic]),
                                           B2N(has_images), <<>>)
                               ELSE None
                    /\ log' = <<"save_questions">>
                              \o (IF send_ok THEN <<"send_post">> ELSE <<>>)
    /\ pc' = "done"
    /\ UNCHANGED <<history_games, history_ads, history_facts, trigger,
                   side_vars, recorded,
                   slot_id, invoked, routine, pair, fetch_locals, fetched>>

(***************************************************************************)
(* What a run is started with.                                             *)
(***************************************************************************)
InSlot6 == <<"S", "l", "o", "t", " ", "6", ":", " ", "O", "b", "s", "c", "u", "r", "e">>
InSlot5 == <<"S", "l", "o", "t", " ", "5">>
InSlot16 == <<"S", "l", "o", "t", " ", "1", "6">>
InSlot0 == <<"S", "l", "o", "t", " ", "0">>
InSlot99 == <<"S", "l", "o", "t", " ", "9", "9", ":", " ", "x">>
InSlotNoNumber == <<"S", "l", "o", "t", ":", " ", "F", "a", "c", "t">>
InRunSlot6 == <<"R", "u", "n", " ", "S", "l", "o", "t", " ", "6">>
InAutoDetect == <<"A", "u", "t", "o", "-", "D", "e", "t", "e", "c", "t">>
InOther == <<"h", "e", "l", "l", "o">>

ForcedInputs == {<<>>, InSlot6, InSlot5, InSlot16, InSlot0, InSlot99, InSlotNoNumber,
                 InRunSlot6, InAutoDetect, InOther}

Days == 0..6

\* The three scheduled hours and one that is never scheduled.
Hours == {9, 10, 15, 21}

\* A scheduled run carries no override text, or one left over; a manual run
\* carries any of the texts.  The login succeeds or fails.
Triggers ==
    [day : Days, hour : Hours, is_manual : {TRUE}, forced_input : ForcedInputs,
     login_ok : BOOLEAN]
    \cup [day : Days, hour : Hours, is_manual : {FALSE}, forced_input : {<<>>, InSlot6},
          login_ok : BOOLEAN]

\* The scheduled runs.
ScheduledTriggers ==
    [day : Days, hour : Hours, is_manual : {FALSE}, forced_input : {<<>>},
     login_ok : BOOLEAN]

Step ==
    \/ \E p \in 1..Len(RivalTagLens) : FetchLoad(p)
    \/ FetchQuery
    \/ FetchReturn
    \/ OnThisDayQuery
    \/ OnThisDayFallback
    \/ RunSlot1Ad
    \/ RunGenericQ
    \/ PostSingleGame
    \/ PostFact
    \/ PostOnThisDay
    \/ PostRivalry
    \/ PostStarterPack

(***************************************************************************)
(* Spec: one scheduled run, started from any of a few states the history   *)
(* files can be in.                                                        *)
(***************************************************************************)
\* The files of a fresh installation; after a Memory post of game 1, a fact
\* post of game 2, one ad and one topic question; after eight ads, three single
\* game posts and six topic questions; after four single game posts.
StoredFiles ==
    { [games |-> <<>>, ads |-> -1, questions |-> <<>>, facts |-> <<>>],
      [games |-> <<1, 2>>, ads |-> 0, questions |-> <<3>>, facts |-> <<2>>],
      [games |-> <<2, 1, 3>>, ads |-> 7, questions |-> <<1, 2, 3, 4, 5, 6>>,
       facts |-> <<>>],
      [games |-> <<4, 3, 2, 1>>, ads |-> -1, questions |-> <<>>, facts |-> <<>>] }

InitStored ==
    /\ \E f \in StoredFiles :
        /\ history_games = f.games
        /\ history_ads = f.ads
        /\ history_questions = f.questions
        /\ history_facts = f.facts
        /\ recorded = Len(f.games)
    /\ trigger = NoTrigger
    /\ slot_id = None
    /\ pc = "idle"
    /\ invoked = <<>>
    /\ routine = "none"
    /\ pair = 0
    /\ used_games = <<>>
    /\ found_games = <<>>
    /\ attempt = 0
    /\ count = 0
    /\ fetched = <<>>
    /\ log = <<>>
    /\ raised = FALSE
    /\ post = None
    /\ claude = "none"
    /\ game_platforms = <<>>
    /\ returned_tags = <<>>
    /\ rendered_tags = <<>>
    /\ racers = <<>>
    /\ on_disk = None
    /\ run_picks = <<>>
    /\ images = <<>>
    /\ result = None

Next ==
    \/ pc = "idle" /\ \E t \in ScheduledTriggers : Main(t)
    \/ Step

Spec == InitStored /\ [][Next]_vars

(***************************************************************************)
(* SpecDispatch: one run of a fresh installation, started with any trigger.*)
(***************************************************************************)
NextDispatch ==
    \/ pc = "idle" /\ \E t \in Triggers : Main(t)
    \/ Step

SpecDispatch == Init /\ [][NextDispatch]_vars

(***************************************************************************)
(* SpecRetention: selector calls on a catalog that never runs out, from an *)
(* empty game history.                                                     *)
(***************************************************************************)
\* Lines 292-321 as one step: the call loads the history, finds k games the
\* history does not hold (the catalog numbers its games in the order it hands
\* them out), records them and returns.
SelectorCall(k) ==
    /\ pc = "idle"
    /\ recorded + k <= MaxRecorded
    /\ LET new_ids == [i \in 1..k |-> recorded + i]
       IN /\ \A i \in 1..k : new_ids[i] \notin Range(history_games)
          /\ history_games' = ExtendHistory(history_games, new_ids)
    /\ recorded' = recorded + k
    /\ UNCHANGED <<history_ads, history_questions, history_facts, trigger,
                   side_vars, claude, slot_id,
                   pc, invoked, routine, pair, fetch_locals, fetched, log, raised,
                   post>>

NextRetention == \E k \in {1, 4} : SelectorCall(k)

SpecRetention == Init /\ [][NextRetention]_vars

(***************************************************************************)
(* SpecFacts: run_fact runs that post, one after the other, on a catalog   *)
(* that never runs out.                                                    *)
(***************************************************************************)
\* Lines 560-615 as one step, the selector call of line 561 included: the
\* selector finds and records one game the history does not hold, the post is
\* submitted, and lines 612-614 append the game's id to history_facts.json.
FactRun ==
    /\ pc = "idle"
    /\ recorded < MaxRecorded
    /\ LET id == recorded + 1
       IN /\ id \notin Range(history_games)
          /\ history_games' = ExtendHistory(history_games, <<id>>)
          /\ history_facts' = Append(history_facts, id)
    /\ recorded' = recorded + 1
    /\ UNCHANGED <<history_ads, history_questions, trigger, side_vars, claude,
                   slot_id, pc, invoked, routine, pair, fetch_locals, fetched,
                   log, raised, post>>

NextFacts == FactRun

SpecFacts == Init /\ [][NextFacts]_vars

(***************************************************************************)
(* SpecTags: the tags of one text, for any platform list the item in hand  *)
(* may carry.                                                              *)
(***************************************************************************)
TagRetro == <<"#", "R", "e", "t", "r", "o">>
TagFunFact == <<"#", "F", "u", "n", "F", "a", "c", "t">>
TagOnThisDay == <<"#", "O", "n", "T", "h", "i", "s", "D", "a", "y">>

\* Lines 500-505 and 554-555: cfg['tag'], rendered when it is not None.
CfgTag(slot_type) ==
    IF slot_type = "Unpopular" THEN <<<<"#", "U", "n", "p", "o", "p", "u", "l", "a", "r", "O", "p", "i", "n", "i", "o", "n">>>>
    ELSE IF slot_type = "Obscure" THEN <<<<"#", "H", "i", "d", "d", "e", "n", "G", "e", "m">>>>
    ELSE IF slot_type = "Aesthetic"
    THEN <<<<"#", "R", "e", "t", "r", "o", "A", "e", "s", "t", "h", "e", "t", "i", "c", "s">>>>
    ELSE <<>>

\* The handlers that render get_platform_tags' list.
TagHandlers ==
    {Handler("run_single_game_post", t) : t \in SlotTypes}
    \cup {Handler("run_fact", "-"), Handler("run_on_this_day", "-")}

\* Lines 547-555, 598-605, 664-671: the tb.tag calls of a handler, in order.
TagCalls(h, tag_list) ==
    <<TagRetro, TagRetroGaming>> \o tag_list
    \o (IF h.routine = "run_single_game_post" THEN CfgTag(h.slot_type)
        ELSE IF h.routine = "run_fact" THEN <<TagFunFact>>
        ELSE <<TagOnThisDay>>)

\* Lines 536-555 (587-605, 656-671): handler h asks get_platform_tags for the
\* tags of the game in hand and renders its tags.
RenderTags(h) ==
    /\ pc = "idle"
    /\ returned_tags' \in GetPlatformTags(game_platforms)
    /\ rendered_tags' = TagCalls(h, returned_tags')
    /\ invoked' = <<h>>
    /\ routine' = h.routine
    /\ pc' = "tags_rendered"
    /\ UNCHANGED <<files, trigger, recorded, claude, game_platforms, racers,
                   late_vars, slot_id, pair, fetch_locals, fetched, log, raised, post>>

InitTags ==
    /\ game_platforms \in PlatformLists
    /\ returned_tags = <<>>
    /\ rendered_tags = <<>>
    /\ history_games = <<>>
    /\ history_ads = -1
    /\ history_questions = <<>>
    /\ history_facts = <<>>
    /\ trigger = NoTrigger
    /\ slot_id = None
    /\ pc = "idle"
    /\ invoked = <<>>
    /\ routine = "none"
    /\ pair = 0
    /\ used_games = <<>>
    /\ found_games = <<>>
    /\ attempt = 0
    /\ count = 0
    /\ fetched = <<>>
    /\ log = <<>>
    /\ raised = FALSE
    /\ post = None
    /\ recorded = 0
    /\ claude = "none"
    /\ racers = <<>>
    /\ on_disk = None
    /\ run_picks = <<>>
    /\ images = <<>>
    /\ result = None

NextTags == \E h \in TagHandlers : RenderTags(h)

SpecTags == InitTags /\ [][NextTags]_vars

(***************************************************************************)
(* Two overlapping runs of run_single_game_post on one history_games.json  *)
(* (SpecRace).  Each run is a process of its own with its own locals; the  *)
(* file is all they share, and the source takes no lock on it.             *)
(***************************************************************************)
Racers == {1, 2}

Other(p) == 3 - p

RacerStart == [pc |-> "run_single_game_post", used_games |-> <<>>,
               found_games |-> <<>>, attempt |-> 0, post |-> None,
               raised |-> FALSE]

\* A load that waits until no other run is between its load and its save.
RaceLoadLocked(p) ==
    /\ racers[p].pc = "run_single_game_post"
    /\ racers[Other(p)].pc \in {"run_single_game_post", "post_single_game", "done"}
    /\ racers' = [racers EXCEPT ![p].used_games = history_games,
                                ![p].pc = "fetch"]
    /\ UNCHANGED <<files, trigger, slot_id, pc, invoked, routine, pair,
                   fetch_locals, fetched, log, raised, post, recorded, claude,
                   game_platforms, returned_tags, rendered_tags, late_vars>>

\* Lines 496 and 292-293: run p calls the selector, which loads the history.
RaceLoad(p) ==
    /\ racers[p].pc = "run_single_game_post"
    /\ racers' = [racers EXCEPT ![p].used_games = history_games,
                                ![p].pc = "fetch"]
    /\ UNCHANGED <<files, trigger, slot_id, pc, invoked, routine, pair,
                   fetch_locals, fetched, log, raised, post, recorded, claude,
                   game_platforms, returned_tags, rendered_tags, late_vars>>

\* Lines 300-313: one turn of run p's loop, with any answer of the catalog.
RaceQuery(p) ==
    /\ racers[p].pc = "fetch"
    /\ racers[p].attempt < QueryAttempts
    /\ Len(racers[p].found_games) < 1
    /\ \E resp \in QueryResponses :
          racers' = [racers EXCEPT
                        ![p].attempt = @ + 1,
                        ![p].found_games =
                            AfterQuery(resp, racers[p].used_games, @, 1)]
    /\ UNCHANGED <<files, trigger, slot_id, pc, invoked, routine, pair,
                   fetch_locals, fetched, log, raised, post, recorded, claude,
                   game_platforms, returned_tags, rendered_tags, late_vars>>

\* Lines 315-321 and 497: run p's selector writes the history it loaded plus
\* its own choice and returns; the handler returns on an empty list.
RaceReturn(p) ==
    /\ racers[p].pc = "fetch"
    /\ racers[p].attempt = QueryAttempts \/ Len(racers[p].found_games) >= 1
    /\ IF racers[p].found_games # <<>>
       THEN history_games' = ExtendHistory(racers[p].used_games,
                                           IdsOf(racers[p].found_games))
       ELSE UNCHANGED history_games
    /\ racers' = [racers EXCEPT
                     ![p].attempt = 0,
                     ![p].pc = IF racers[p].found_games = <<>>
                               THEN "done" ELSE "post_single_game"]
    /\ UNCHANGED <<history_ads, history_questions, history_facts, trigger,
                   slot_id, pc, invoked, routine, pair,
                   fetch_locals, fetched, log, raised, post, recorded, claude,
                   game_platforms, returned_tags, rendered_tags, late_vars>>

\* Lines 498-557: run p posts its game, unless an upload or send_post raises.
RacePost(p) ==
    /\ racers[p].pc = "post_single_game"
    /\ \E ok \in BOOLEAN :
          racers' = [racers EXCEPT
                        ![p].pc = "done",
                        ![p].raised = ~ok,
                        ![p].post = IF ok THEN Some(racers[p].found_games[1].id)
                                    ELSE None]
    /\ UNCHANGED <<files, trigger, slot_id, pc, invoked, routine, pair,
                   fetch_locals, fetched, log, raised, post, recorded, claude,
                   game_platforms, returned_tags, rendered_tags, late_vars>>

InitRace ==
    /\ racers = [p \in Racers |-> RacerStart]
    /\ on_disk = None
    /\ run_picks = <<>>
    /\ images = <<>>
    /\ result = None
    /\ history_games \in {<<>>, <<1>>}
    /\ history_ads = -1
    /\ history_questions = <<>>
    /\ history_facts = <<>>
    /\ trigger = NoTrigger
    /\ slot_id = None
    /\ pc = "idle"
    /\ invoked = <<>>
    /\ routine = "none"
    /\ pair = 0
    /\ used_games = <<>>
    /\ found_games = <<>>
    /\ attempt = 0
    /\ count = 0
    /\ fetched = <<>>
    /\ log = <<>>
    /\ raised = FALSE
    /\ post = None
    /\ recorded = 0
    /\ claude = "none"
    /\ game_platforms = <<>>
    /\ returned_tags = <<>>
    /\ rendered_tags = <<>>

NextRace ==
    \E p \in Racers :
        \/ RaceLoad(p)
        \/ RaceQuery(p)
        \/ RaceReturn(p)
        \/ RacePost(p)

SpecRace == InitRace /\ [][NextRace]_vars

(***************************************************************************)
(* SpecLoad: one run of run_slot_1_ad or of run_single_game_post("Memory") *)
(* that finds its history file in any condition.  The game history is      *)
(* drawn absent, unparseable or a list; the ad history also as a JSON      *)
(* document of another shape.                                              *)
(***************************************************************************)
HISTORY_ADS == "history_ads.json"
HISTORY_GAMES == "history_games.json"

NoFile(name) == [name |-> name, kind |-> "absent", value |-> <<>>]

\* A file json.load raises on.
BadFile(name) == [name |-> name, kind |-> "unparseable", value |-> <<>>]

\* A file holding a JSON list.
ListFile(name, v) == [name |-> name, kind |-> "list", value |-> v]

\* A file holding a JSON object: v is None when it has no 'last_index' key,
\* else the value under that key.
ObjectFile(name, v) == [name |-> name, kind |-> "object", value |-> v]

AdFiles ==
    {NoFile(HISTORY_ADS), BadFile(HISTORY_ADS), ListFile(HISTORY_ADS, <<>>),
     ObjectFile(HISTORY_ADS, None)}
    \cup {ObjectFile(HISTORY_ADS, Some(i)) : i \in -1..(Len(MONDAY_FEATURES) - 1)}

GameFiles ==
    {NoFile(HISTORY_GAMES), BadFile(HISTORY_GAMES)}
    \cup {ListFile(HISTORY_GAMES, f.games) : f \in StoredFiles}

\* Lines 179-184: the default when the file is absent or json.load raises,
\* else whatever document the file holds.
LoadJson(file, default) ==
    IF file.kind \in {"absent", "unparseable"}
    THEN default
    ELSE [kind |-> file.kind, value |-> file.value]

\* Lines 359-360: run_slot_1_ad loads its history and reads history['last_index'],
\* which raises on a list (TypeError) and on an object without the key (KeyError).
LoadAds ==
    /\ pc = "idle"
    /\ on_disk.name = HISTORY_ADS
    /\ slot_id' = Some(1)
    /\ invoked' = <<Handler("run_slot_1_ad", "-")>>
    /\ routine' = "run_slot_1_ad"
    /\ LET history == LoadJson(on_disk, [kind |-> "object", value |-> Some(-1)])
       IN IF history.kind = "object" /\ history.value # None
          THEN /\ history_ads' = history.value[1]
               /\ pc' = "run_slot_1_ad"
               /\ UNCHANGED raised
          ELSE /\ raised' = TRUE
               /\ pc' = "done"
               /\ UNCHANGED history_ads
    /\ UNCHANGED <<history_games, history_questions, history_facts, trigger,
                   side_vars, claude, recorded, pair, fetch_locals, fetched,
                   log, post>>

\* Lines 772 and 292: run_single_game_post("Memory") is called; the selector's
\* load_json reads the game history as the file gives it.
LoadGames ==
    /\ pc = "idle"
    /\ on_disk.name = HISTORY_GAMES
    /\ slot_id' = Some(11)
    /\ invoked' = <<Handler("run_single_game_post", "Memory")>>
    /\ routine' = "run_single_game_post"
    /\ history_games' = LoadJson(on_disk, [kind |-> "list", value |-> <<>>]).value
    /\ recorded' = Len(history_games')
    /\ pc' = "run_single_game_post"
    /\ UNCHANGED <<history_ads, history_questions, history_facts, trigger,
                   side_vars, claude, pair, fetch_locals, fetched,
                   log, raised, post>>

InitLoad ==
    /\ on_disk \in AdFiles \cup GameFiles
    /\ history_games = <<>>
    /\ history_ads = -1
    /\ history_questions = <<>>
    /\ history_facts = <<>>
    /\ trigger = NoTrigger
    /\ slot_id = None
    /\ pc = "idle"
    /\ invoked = <<>>
    /\ routine = "none"
    /\ pair = 0
    /\ used_games = <<>>
    /\ found_games = <<>>
    /\ attempt = 0
    /\ count = 0
    /\ fetched = <<>>
    /\ log = <<>>
    /\ raised = FALSE
    /\ post = None
    /\ recorded = 0
    /\ claude = "none"
    /\ game_platforms = <<>>
    /\ returned_tags = <<>>
    /\ rendered_tags = <<>>
    /\ racers = <<>>
    /\ run_picks = <<>>
    /\ images = <<>>
    /\ result = None

NextLoad ==
    \/ LoadAds
    \/ LoadGames
    \/ RunSlot1Ad
    \/ \E p \in 1..Len(RivalTagLens) : FetchLoad(p)
    \/ FetchQuery
    \/ FetchReturn
    \/ PostSingleGame

SpecLoad == InitLoad /\ [][NextLoad]_vars

(***************************************************************************)
(* SpecImages: image_to_bytes and create_collage, each called once on any  *)
(* of a few images.                                                        *)
(***************************************************************************)
\* (width, height) of the images drawn: landscape, portrait, wide, one whose
\* aspect times 600 falls just under a whole number in floating point, and a
\* one-pixel column.
Dims == {<<800, 600>>, <<600, 800>>, <<1920, 1080>>, <<11, 15>>, <<1, 1000>>}

\* The JPEG qualities 85, 70, 55, 40, 25 numbered 1..5: an image's fits_from is
\* the first of them whose encoding is under the upload ceiling, 6 when none is.
FitsFrom == 1..6

ImagesOf(fits) ==
    [width : {d[1] : d \in Dims}, height : {d[2] : d \in Dims}, fits_from : fits]

\* One image of any kind, or up to MaxImages images.
ImageLists ==
    {<<i>> : i \in {j \in ImagesOf(FitsFrom) : <<j.width, j.height>> \in Dims}}
    \cup UNION {[1..n -> {j \in ImagesOf({1}) : <<j.width, j.height>> \in Dims}] :
                    n \in 0..MaxImages}

\* Lines 210-214: one encoding, at quality 85.
ImageToBytes ==
    /\ pc = "idle"
    /\ images # <<>>
    /\ routine' = "image_to_bytes"
    /\ result' = Some([kind |-> "bytes", quality |-> 85, img |-> images[1]])
    /\ pc' = "done"
    /\ UNCHANGED <<files, trigger, slot_id, invoked, pair, fetch_locals, fetched,
                   log, raised, post, recorded, claude, game_platforms,
                   returned_tags, rendered_tags, racers, on_disk, run_picks, images>>

\* line 226
target_h == 600
\* line 241
target_size == 600

\* The (w, h) of Dims for which the double 600 * (w / h) is just under the
\* whole number 600 * w / h.
RoundsUnder == {<<11, 15>>}

\* Lines 229-230: int(target_h * (img.width / img.height)).
NewWInverted(img) == (target_h * img.height) \div img.width

NewW(img) ==
    IF <<img.width, img.height>> \in RoundsUnder
    THEN (target_h * img.width) \div img.height - 1
    ELSE (target_h * img.width) \div img.height

\* Line 231, for each image.
Resized(imgs) == [i \in 1..Len(imgs) |-> [width |-> NewW(imgs[i]), height |-> target_h]]

RECURSIVE TotalW(_)
TotalW(imgs) == IF imgs = <<>> THEN 0 ELSE Head(imgs).width + TotalW(Tail(imgs))

\* Lines 233-240: where each resized image is pasted, side by side.
PastedPair(resized) ==
    [i \in 1..Len(resized) |->
        [x |-> TotalW(SubSeq(resized, 1, i - 1)), y |-> 0,
         width |-> resized[i].width, height |-> resized[i].height]]

\* Lines 243-251: the first four, each cropped to its centre square, resized to
\* target_size and pasted into its quadrant (idx = i - 1).
PastedGrid(resized) ==
    [i \in 1..Min(4, Len(resized)) |->
        [x |-> ((i - 1) % 2) * target_size, y |-> ((i - 1) \div 2) * target_size,
         width |-> target_size, height |-> target_size]]

\* Lines 224-253, once the library has accepted every size asked of it.
Collage(imgs, grid) ==
    IF imgs = <<>> THEN None
    ELSE IF grid = <<2, 1>>
    THEN Some([kind |-> "image", grid |-> grid,
               width |-> TotalW(Resized(imgs)), height |-> target_h,
               pasted |-> PastedPair(Resized(imgs))])
    ELSE IF grid = <<2, 2>>
    THEN Some([kind |-> "image", grid |-> grid,
               width |-> target_size * 2, height |-> target_size * 2,
               pasted |-> PastedGrid(Resized(imgs))])
    ELSE Some([kind |-> "image", grid |-> grid,
               width |-> imgs[1].width, height |-> imgs[1].height,
               pasted |-> <<>>])

\* Lines 224-253.  What the imaging library does when asked for an image of
\* width 0 (lines 231, 247) is not in the source: it raises or goes on.
CreateCollage(grid) ==
    /\ pc = "idle"
    /\ routine' = "create_collage"
    /\ \E zero_ok \in BOOLEAN :
          IF zero_ok \/ \A i \in 1..Len(images) : NewW(images[i]) > 0
          THEN /\ result' = Collage(images, grid)
               /\ UNCHANGED raised
          ELSE /\ result' = None
               /\ raised' = TRUE
    /\ pc' = "done"
    /\ UNCHANGED <<files, trigger, slot_id, invoked, pair, fetch_locals, fetched,
                   log, post, recorded, claude, game_platforms,
                   returned_tags, rendered_tags, racers, on_disk, run_picks, images>>

InitImages ==
    /\ images \in ImageLists
    /\ result = None
    /\ on_disk = None
    /\ run_picks = <<>>
    /\ history_games = <<>>
    /\ history_ads = -1
    /\ history_questions = <<>>
    /\ history_facts = <<>>
    /\ trigger = NoTrigger
    /\ slot_id = None
    /\ pc = "idle"
    /\ invoked = <<>>
    /\ routine = "none"
    /\ pair = 0
    /\ used_games = <<>>
    /\ found_games = <<>>
    /\ attempt = 0
    /\ count = 0
    /\ fetched = <<>>
    /\ log = <<>>
    /\ raised = FALSE
    /\ post = None
    /\ recorded = 0
    /\ claude = "none"
    /\ game_platforms = <<>>
    /\ returned_tags = <<>>
    /\ rendered_tags = <<>>
    /\ racers = <<>>

\* The grids the handlers pass (default and line 462, line 687) and another.
Grids == {<<2, 1>>, <<2, 2>>, <<1, 1>>}

NextImages ==
    \/ ImageToBytes
    \/ \E grid \in Grids : CreateCollage(grid)

SpecImages == InitImages /\ [][NextImages]_vars

(***************************************************************************)
(* SpecAds: runs of run_slot_1_ad one after the other, from the initial    *)
(* history.                                                                *)
(***************************************************************************)
\* Lines 358-387 as one step: the run picks its feature from the saved index,
\* and saves the new index once send_post has returned.
AdRun ==
    /\ pc = "idle"
    /\ Len(run_picks) < MaxAdRuns
    /\ \E img_exists \in BOOLEAN, upload_ok \in BOOLEAN, send_ok \in BOOLEAN :
          LET idx == AdIndex(history_ads)
          IN /\ history_ads' = IF AdSaved(img_exists, upload_ok, send_ok)
                               THEN idx ELSE history_ads
             /\ run_picks' = Append(run_picks,
                                [pick |-> idx,
                                 posted |-> AdPosted(img_exists, upload_ok, send_ok)])
    /\ UNCHANGED <<history_games, history_questions, history_facts, trigger,
                   slot_id, pc, invoked, routine, pair, fetch_locals, fetched,
                   log, raised, post, recorded, claude, game_platforms,
                   returned_tags, rendered_tags, racers, on_disk, images, result>>

NextAds == AdRun

SpecAds == Init /\ [][NextAds]_vars

(***************************************************************************)
(* SpecTopics: topic-mode runs of run_generic_q one after the other, from  *)
(* the empty question history.  A console-mode run in between reads the    *)
(* history and leaves it as it is.                                         *)
(***************************************************************************)
\* The topics random.choice is let draw: the first MaxDraws of the eligible
\* ones, in the order of GENERIC_TOPICS.
TopicDraws(used_q) ==
    {t \in EligibleTopics(used_q) :
        Cardinality({u \in EligibleTopics(used_q) : u < t}) < MaxDraws}

\* Lines 389-433 in topic mode as one step: the run draws its topic, uploads
\* an image if there is one (the run ends there if the upload raises), and
\* appends the topic to the history.  What get_claude_text and send_post do
\* afterwards changes neither the history nor the topic.
TopicRun ==
    /\ pc = "idle"
    /\ Len(run_picks) < MaxTopicRuns
    /\ \E has_images \in BOOLEAN, upload_ok \in BOOLEAN :
       \E topic \in TopicDraws(history_questions) :
          LET recorded_it == ~has_images \/ upload_ok
          IN /\ history_questions' =
                    IF recorded_it
                    THEN LastN(Append(history_questions, topic), 50)
                    ELSE history_questions
             /\ run_picks' = Append(run_picks,
                                    [pick |-> topic, recorded |-> recorded_it])
    /\ UNCHANGED <<history_games, history_ads, history_facts, trigger,
                   slot_id, pc, invoked, routine, pair, fetch_locals, fetched,
                   log, raised, post, recorded, claude, game_platforms,
                   returned_tags, rendered_tags, racers, on_disk, images, result>>

NextTopics == TopicRun

SpecTopics == Init /\ [][NextTopics]_vars

(***************************************************************************)
(* Properties of one scheduled run (Spec).                                 *)
(***************************************************************************)
SaveEvents == {"save_games", "save_questions", "save_facts", "save_ads"}

\* C1: every write of a history file made in a run (the game history written
\* by the selector, the topic history written by run_generic_q, and the
\* others) comes after send_post has returned in that run.
C1_HistoryWrittenAfterSubmit ==
    \A i \in 1..Len(log) :
        log[i] \in SaveEvents => \E j \in 1..(i - 1) : log[j] = "send_post"

\* C2: fetch_games_from_rawg never chooses an item whose id is in the history
\* it loaded; what it returns is in the stored history once it has returned, so
\* the next call of the same run (run_rivalry's second) returns none of it.
C2_SelectorSkipsHistory ==
    /\ pc = "fetch" =>
         \A i \in 1..Len(found_games) : found_games[i].id \notin Range(used_games)
    /\ routine # "run_on_this_day" =>
         \A k \in 1..Len(fetched) : Range(IdsOf(fetched[k])) \subseteq Range(history_games)
    /\ Len(fetched) = 2 =>
         Range(IdsOf(fetched[1])) \cap Range(IdsOf(fetched[2])) = {}

\* Both selector calls of a run_rivalry run returned an item, the second one
\* after loading a history that held the first one's item and the stored ids.
C2_Witness ==
    /\ routine = "run_rivalry"
    /\ Len(fetched) = 2
    /\ fetched[1] # <<>>
    /\ fetched[2] # <<>>
    /\ Len(history_games) = 4

\* C3: fetch_on_this_day_game returns no item whose id is in the game history,
\* and the item it returned is in the game history once its post is submitted.
C3_OnThisDaySkipsHistory ==
    (routine = "run_on_this_day" /\ fetched # <<>>) =>
        /\ pc = "post_on_this_day" => fetched[1][1].id \notin Range(history_games)
        /\ post # None => fetched[1][1].id \in Range(history_games)

\* C4: the text of a submitted post is never longer than 300 characters.
C4_PostWithinCeiling ==
    post # None => post[1].text_len <= 300

\* C9: history_ads.json changes only in the run_slot_1_ad step whose send_post
\* returned, and then to the index of the feature just posted; a run that ends
\* on a missing image, a failed upload or a failed send leaves it as it was, so
\* the next run picks the same feature.
C9_AdIndexMovesOnlyOnSubmit ==
    [][ /\ history_ads' # history_ads =>
              /\ pc = "run_slot_1_ad"
              /\ post' # None
              /\ history_ads' = AdIndex(history_ads)
        /\ (pc = "run_slot_1_ad" /\ post' = None) =>
              /\ history_ads' = history_ads
              /\ AdIndex(history_ads') = AdIndex(history_ads) ]_vars

\* A run_slot_1_ad run whose upload or send raised, with the stored index still
\* at the last feature.
C9_Witness ==
    /\ routine = "run_slot_1_ad"
    /\ pc = "done"
    /\ raised
    /\ post = None
    /\ history_ads = 7

(***************************************************************************)
(* Properties of the dispatcher (SpecDispatch).                            *)
(***************************************************************************)
\* The handler each schedule entry is labelled with (comments at lines 34-40),
\* by weekday, in the order of the hours 9, 15, 21.
ScheduleLabels ==
    << <<Handler("run_slot_1_ad", "-"), Handler("run_generic_q", "-"),
         Handler("run_on_this_day", "-")>>,
       <<Handler("run_single_game_post", "Aesthetic"), Handler("run_rivalry", "-"),
         Handler("run_fact", "-")>>,
       <<Handler("run_single_game_post", "Unpopular"), Handler("run_generic_q", "-"),
         Handler("run_on_this_day", "-")>>,
       <<Handler("run_single_game_post", "Obscure"), Handler("run_rivalry", "-"),
         Handler("run_fact", "-")>>,
       <<Handler("run_starter_pack", "-"), Handler("run_generic_q", "-"),
         Handler("run_on_this_day", "-")>>,
       <<Handler("run_single_game_post", "Aesthetic"), Handler("run_fact", "-"),
         Handler("run_single_game_post", "Memory")>>,
       <<Handler("run_single_game_post", "Memory"), Handler("run_fact", "-"),
         Handler("run_on_this_day", "-")>> >>

\* The schedule has an entry for the run's weekday and hour.
HasEntry(t) == \E i \in 1..Len(ScheduleRow(t.day)) : ScheduleRow(t.day)[i][1] = t.hour

EntryIndex(t) == CHOOSE i \in 1..Len(ScheduleRow(t.day)) : ScheduleRow(t.day)[i][1] = t.hour

Dispatched == pc # "idle" /\ trigger.login_ok

\* C5: in a run without manual override whose login succeeded and whose weekday
\* and hour have a schedule entry, main calls the handler of that entry, once,
\* and calls no other handler, up to the end of the run.
C5_ScheduledHandlerOnce ==
    (Dispatched /\ ~trigger.is_manual /\ HasEntry(trigger)) =>
        invoked = <<ScheduleLabels[trigger.day + 1][EntryIndex(trigger)]>>

\* Tuesday 15:00 has ended with run_rivalry's post.
C5_Witness ==
    /\ pc = "done"
    /\ trigger.login_ok /\ ~trigger.is_manual
    /\ trigger.day = 1 /\ trigger.hour = 15
    /\ invoked = <<Handler("run_rivalry", "-")>>
    /\ post # None

\* C6 as stated: whenever the override text carries a slot number
\* ("Slot 6: Obscure", "Run Slot 6"), main resolves that number, whatever the
\* weekday, the hour and the rest of the trigger.
C6_OverrideTextAlwaysWins ==
    (Dispatched /\ trigger.forced_input \in {InSlot6, InRunSlot6}) => slot_id = Some(6)

\* The number each override text of the form "Slot <n>" or "Slot <n>: <label>" names.
SlotTexts == {<<InSlot6, 6>>, <<InSlot5, 5>>, <<InSlot16, 16>>, <<InSlot0, 0>>,
              <<InSlot99, 99>>}

\* C6, amended: in a run flagged manual whose override text has the form
\* "Slot <n>" or "Slot <n>: <label>", main resolves n and calls the handler
\* bound to n, whatever the weekday and hour and whatever the schedule holds.
C6_ManualSlotTextWins ==
    \A st \in SlotTexts :
        (Dispatched /\ trigger.is_manual /\ trigger.forced_input = st[1]) =>
            /\ slot_id = Some(st[2])
            /\ st[2] = 6 => invoked = <<Handler("run_single_game_post", "Obscure")>>
            /\ st[2] = 5 => invoked = <<Handler("run_fact", "-")>>

\* "Slot 6: Obscure" typed on Tuesday 15:00, where the schedule holds slot 3.
C6_Witness ==
    /\ Dispatched
    /\ trigger.is_manual
    /\ trigger.forced_input = InSlot6
    /\ trigger.day = 1 /\ trigger.hour = 15
    /\ slot_id = Some(6)
    /\ invoked = <<Handler("run_single_game_post", "Obscure")>>

\* C7: a run without manual override at a weekday and hour with no schedule
\* entry ends at once: no handler is called, nothing is posted, no history
\* file is written, nothing is raised.
C7_NoEntryNoEffect ==
    (Dispatched /\ ~trigger.is_manual /\ ~HasEntry(trigger)) =>
        /\ pc = "done"
        /\ invoked = <<>>
        /\ post = None
        /\ log = <<>>
        /\ ~raised
        /\ history_games = <<>> /\ history_ads = -1
        /\ history_questions = <<>> /\ history_facts = <<>>

\* Tuesday 10:00 without override has ended.
C7_Witness ==
    /\ pc = "done"
    /\ trigger.login_ok /\ ~trigger.is_manual
    /\ trigger.day = 1 /\ trigger.hour = 10
    /\ slot_id = None

\* Override texts that name no bound handler: no number, no keyword, or one of
\* the numbers 16, 0, 99.
UnboundTexts == {InOther, <<>>, InSlotNoNumber, InRunSlot6, InSlot16, InSlot0, InSlot99}

\* C8: a manual run whose override text names no bound handler calls no
\* handler, posts nothing, writes nothing and raises nothing.
C8_UnboundOverrideNoOp ==
    (Dispatched /\ trigger.is_manual /\ trigger.forced_input \in UnboundTexts) =>
        /\ pc = "done"
        /\ invoked = <<>>
        /\ post = None
        /\ log = <<>>
        /\ ~raised
        /\ history_games = <<>> /\ history_ads = -1
        /\ history_questions = <<>> /\ history_facts = <<>>

\* "Slot 16" typed by hand has ended, resolved to 16.
C8_Witness ==
    /\ pc = "done"
    /\ trigger.login_ok /\ trigger.is_manual
    /\ trigger.forced_input = InSlot16
    /\ slot_id = Some(16)
    /\ ~raised

(***************************************************************************)
(* Retention of the game history (SpecRetention).                          *)
(***************************************************************************)
\* C10: from an empty game history, once the selector has recorded M ids in
\* all, the stored history has min(M, 2000) entries, and they are the last
\* min(M, 2000) ids recorded, oldest first.
C10_RetentionWindow ==
    LET n == Len(history_games)
    IN /\ n = Min(recorded, 2000)
       /\ \A i \in 1..n : history_games[i] = recorded - n + i

\* More than 2000 ids were recorded and the oldest ones are gone.
C10_Witness ==
    /\ recorded > 2000
    /\ Len(history_games) = 2000
    /\ history_games[1] = recorded - 1999

(***************************************************************************)
(* Growth of the history files (SpecFacts).                                *)
(***************************************************************************)
\* C11: whatever runs came before, each history file holds at most a fixed
\* number of entries: 2000 game ids, 50 topics, 2000 fact ids.
C11_EveryHistoryCapped ==
    /\ Len(history_games) <= 2000
    /\ Len(history_questions) <= 50
    /\ Len(history_facts) <= 2000

(***************************************************************************)
(* Tags (SpecTags).                                                        *)
(***************************************************************************)
IsDuplicateFree(s) == \A i, j \in 1..Len(s) : s[i] = s[j] => i = j

\* C12: whatever platform list the game carries, the tags run_single_game_post,
\* run_fact and run_on_this_day render hold no tag twice and are at most 5.
C12_TagsDistinctAtMostFive ==
    pc = "tags_rendered" =>
        /\ IsDuplicateFree(rendered_tags)
        /\ Len(rendered_tags) <= 5

\* The label of the first platform, in list order, that matches a key other
\* than "PC"; else #PCGaming if a platform matches "PC"; else #RetroGaming.
RECURSIVE CascadeLabel(_, _)
CascadeLabel(names, pc_seen) ==
    IF names = <<>> THEN (IF pc_seen THEN TagPCGaming ELSE TagRetroGaming)
    ELSE LET t == TagOfPlatform(Head(names))
         IN IF t = None THEN CascadeLabel(Tail(names), pc_seen)
            ELSE IF t[1] = TagPCGaming THEN CascadeLabel(Tail(names), TRUE)
            ELSE t[1]

LabelOfName ==
    { <<<<"P", "C">>, <<"#", "P", "C", "G", "a", "m", "i", "n", "g">>>>,
      <<<<"P", "l", "a", "y", "S", "t", "a", "t", "i", "o", "n">>, <<"#", "P", "S", "1">>>>,
      <<<<"P", "l", "a", "y", "S", "t", "a", "t", "i", "o", "n", " ", "2">>,
        <<"#", "P", "S", "2">>>>,
      <<<<"X", "b", "o", "x", " ", "O", "n", "e">>, <<"#", "X", "b", "o", "x">>>> }

MatchedLabels(names) ==
    {nl[2] : nl \in {x \in LabelOfName : x[1] \in Range(names)}}

C14_AtMostFourImages ==
    post # None => post[1].images <= 4

\* A single game post with main image, two screenshots and promo image.
C14_Witness ==
    /\ post # None
    /\ routine = "run_single_game_post"
    /\ post[1].images = 4

\* What a list returned for a target count n must satisfy.
IsSelection(games, n) ==
    /\ Len(games) <= n
    /\ IsDuplicateFree(IdsOf(games))
    /\ \A i \in 1..Len(games) : games[i].background_image

\* C15: fetch_games_from_rawg, asked for N items (4 by run_starter_pack, 1 by
\* the other handlers), holds and returns at most N items, no id twice, each
\* with a primary image.
C15_SelectionWithinCount ==
    LET n == IF routine = "run_starter_pack" THEN 4 ELSE 1
    IN /\ pc = "fetch" => count = n /\ IsSelection(found_games, n)
       /\ routine # "run_on_this_day" =>
            \A k \in 1..Len(fetched) : IsSelection(fetched[k], n)

\* run_starter_pack got its four games.
C15_Witness ==
    /\ routine = "run_starter_pack"
    /\ fetched # <<>>
    /\ Len(fetched[1]) = 4

\* C16: a call of fetch_games_from_rawg issues at most 10 queries, each turn
\* of its loop counting as one; once it holds N items or has issued 10 queries
\* it issues no further query and can only return; it returns what it holds
\* (fewer than N, possibly nothing) and raises nothing, whatever the catalog
\* answered.
C16_SelectorStopsAndReturns ==
    /\ [](pc = "fetch" =>
            /\ attempt <= 10
            /\ ~raised
            /\ IF attempt = 10 \/ Len(found_games) >= count
               THEN ~ENABLED FetchQuery /\ ENABLED FetchReturn
               ELSE ENABLED FetchQuery /\ ~ENABLED FetchReturn)
    /\ [][pc = "fetch" =>
            \/ pc' = "fetch" /\ attempt' = attempt + 1
            \/ /\ pc' # "fetch"
               /\ ~raised'
               /\ fetched' = Append(fetched, found_games)]_vars

\* Ten queries were issued and none gave a usable item.
C16_Witness ==
    /\ pc = "fetch"
    /\ attempt = 10
    /\ found_games = <<>>

\* The ways a call of get_claude_text ends without a text.
FailKinds == {"unconfigured", "raises", "empty"}

\* The lengths the text of each handler has when its caption is the handler's
\* fixed sentence around the names of the games in hand (lines 509, 567, 630,
\* 453, 680, 435).
SingleFallbackLens ==
    [t \in SlotTypes |->
        {SingleTextLen(t, Some(Len("Remember ?") + n), n, link, tl) :
            n \in NameLens, link \in BOOLEAN, tl \in PlatTagLists}]

FactFallbackLens ==
    {FactTextLen(i, Some(Len("Did you know  is considered a classic?") + n), n, link, tl) :
        i \in FactIntroLens, n \in NameLens, link \in BOOLEAN, tl \in PlatTagLists}

OnThisDayFallbackLens ==
    {OnThisDayTextLen(Some(Len("On this day in 1999,  was released!") + n), n, tl) :
        n \in NameLens, tl \in PlatTagLists}

RivalryFallbackLens ==
    [p \in 1..Len(RivalTagLens) |->
        {RivalryTextLen(p, Some(Len(" vs . Which one did you play?") + n1 + n2), n1, n2) :
            n1 \in NameLens, n2 \in NameLens}]

StarterFallbackLens ==
    {StarterTextLen(Some(Len("One has to go. Which one do you choose?")))}

GenericFallbackLens ==
    {GenericTextLen(Some(Len("What's your take on ?") + tt), tt) :
        tt \in Range(TopicLens)
               \cup {Len("the ") + ConsoleNameLens[c] : c \in 1..Len(ConsoleNameLens)}}

FallbackPostLens ==
    IF routine = "run_single_game_post" THEN SingleFallbackLens[invoked[1].slot_type]
    ELSE IF routine = "run_fact" THEN FactFallbackLens
    ELSE IF routine = "run_on_this_day" THEN OnThisDayFallbackLens
    ELSE IF routine = "run_rivalry" THEN RivalryFallbackLens[pair]
    ELSE IF routine = "run_starter_pack" THEN StarterFallbackLens
    ELSE IF routine = "run_generic_q" THEN GenericFallbackLens
    ELSE {}

\* C17: when the text-generation call of a run was not configured, raised or
\* gave nothing, the run goes on, and the post it submits carries the
\* handler's fixed caption; the failure itself ends no run.
C17_FallbackCaptionOnFailure ==
    claude \in FailKinds =>
        /\ pc = "done"
        /\ post # None \/ raised
        /\ post # None => post[1].text_len \in FallbackPostLens

\* The text-generation call raised and the single game post was submitted.
C17_Witness ==
    /\ claude = "raises"
    /\ routine = "run_single_game_post"
    /\ post # None
    /\ ~raised

\* C18: no exception leaves a handler or main, whichever external call fails.
C18_NoExceptionEscapes ==
    ~raised

\* The selector calls of the running handler have returned, with fewer games
\* than the handler needs.
SelectionShort ==
    \/ /\ routine \in {"run_single_game_post", "run_fact"}
       /\ Len(fetched) = 1
       /\ fetched[1] = <<>>
    \/ /\ routine = "run_rivalry"
       /\ Len(fetched) = 2
       /\ fetched[1] = <<>> \/ fetched[2] = <<>>
    \/ /\ routine = "run_starter_pack"
       /\ Len(fetched) = 1
       /\ Len(fetched[1]) < 4

\* C19: when the selector returned fewer games than the handler needs, the
\* run is over: the handler builds no caption, uploads nothing and submits
\* nothing, and nothing is raised.
C19_ShortSelectionEndsRun ==
    SelectionShort =>
        /\ pc = "done"
        /\ claude = "none"
        /\ post = None
        /\ ~raised
        /\ \A i \in 1..Len(log) : log[i] # "send_post"

\* run_starter_pack got three games only; they are recorded, nothing is posted.
C19_Witness ==
    /\ routine = "run_starter_pack"
    /\ Len(fetched) = 1
    /\ Len(fetched[1]) = 3
    /\ pc = "done"
    /\ post = None

\* Both runs posted the same game.
BothPosted(g) == \A p \in Racers : racers[p].post = Some(g)

\* C20: nothing orders two overlapping runs: a run's load of the history
\* never waits for the other run's save, and a run holding a game submits it
\* whatever the other run holds or has posted.  When both runs have posted
\* the same game, each had loaded a history without that game, i.e. both
\* loaded before either saved.
C20_NoLockBetweenRuns ==
    /\ \A p \in Racers :
          /\ racers[p].pc = "run_single_game_post" => ENABLED RaceLoad(p)
          /\ racers[p].pc = "post_single_game" => ENABLED RacePost(p)
    /\ \A g \in 1..MaxGameId :
          BothPosted(g) =>
             \A p \in Racers : g \notin Range(racers[p].used_games)

\* Both runs loaded the empty history, both selected game 2, both posted it.
C20_Witness ==
    /\ BothPosted(2)
    /\ \A p \in Racers : racers[p].used_games = <<>>
    /\ history_games = <<2>>


\* The file holds what the routine that loads it expects.
IsExpectedShape(file) ==
    IF file.name = HISTORY_ADS
    THEN file.kind = "object" /\ file.value # None
    ELSE file.kind = "list"

\* C21: whatever the history file holds, the routine that loads it does not
\* raise on it, and on a file that is absent, unparseable or of another shape
\* it goes on with the empty history.
C21_CorruptStoreTreatedAsEmpty ==
    [][pc = "idle" =>
          /\ ~raised'
          /\ ~IsExpectedShape(on_disk) =>
                /\ pc' \in {"run_slot_1_ad", "run_single_game_post"}
                /\ history_ads' = -1
                /\ history_games' = <<>>]_vars


\* The quality the size-budget compressor returns an image at: the first of
\* 85, 70, 55, 40, 25 whose encoding fits, the last when none fits.
BudgetQuality(img) ==
    IF img.fits_from <= 5 THEN 85 - 15 * (img.fits_from - 1) ELSE 25

\* C22: image_to_bytes returns the first encoding under the ceiling among the
\* qualities 85, 70, 55, 40, 25, and the encoding at 25 when none fits.
C22_FirstEncodingUnderCeiling ==
    (result # None /\ result[1].kind = "bytes") =>
        result[1].quality = BudgetQuality(result[1].img)

\* The collage create_collage returned, if it returned one.
IsCollage(grid) ==
    /\ routine = "create_collage"
    /\ result # None
    /\ result[1].grid = grid

\* C23: in pair mode on two images the collage is 600 high and as wide as its
\* two parts, which lie side by side, each 600 high and within a pixel of
\* the width that keeps its input's aspect; in grid mode the collage is
\* 1200 x 1200 and input k fills the 600 x 600 quadrant at column k mod 2,
\* row k div 2.
C23_CollageSizeByGrid ==
    /\ (IsCollage(<<2, 1>>) /\ Len(images) = 2) =>
          LET c == result[1]
          IN /\ c.height = 600
             /\ Len(c.pasted) = 2
             /\ c.width = c.pasted[1].width + c.pasted[2].width
             /\ c.pasted[1].x = 0 /\ c.pasted[2].x = c.pasted[1].width
             /\ \A i \in 1..2 :
                   /\ c.pasted[i].height = 600 /\ c.pasted[i].y = 0
                   /\ c.pasted[i].width * images[i].height <= 600 * images[i].width
                   /\ (c.pasted[i].width + 1) * images[i].height >= 600 * images[i].width
    /\ IsCollage(<<2, 2>>) =>
          LET c == result[1]
          IN /\ c.width = 1200 /\ c.height = 1200
             /\ Len(c.pasted) = Min(4, Len(images))
             /\ \A k \in 0..(Len(c.pasted) - 1) :
                   c.pasted[k + 1] = [x |-> (k % 2) * 600, y |-> (k \div 2) * 600,
                                      width |-> 600, height |-> 600]

\* A pair of a 1920 x 1080 and a 600 x 800 image: the collage is 1516 x 600.
C23_Witness ==
    /\ IsCollage(<<2, 1>>)
    /\ Len(images) = 2
    /\ images[1].width = 1920 /\ images[2].height = 800
    /\ result[1].width = 1066 + 450


\* C24: every slot of SCHEDULE has a branch in main's chain, and a scheduled
\* run that logged in at a scheduled hour calls the handler of its slot.
C24_ScheduledSlotsBound ==
    /\ \A d \in 1..Len(SCHEDULE) : \A i \in 1..Len(SCHEDULE[d]) :
          RoutineTable(Some(SCHEDULE[d][i][2])) # None
    /\ (/\ pc # "idle"
        /\ trigger.login_ok
        /\ ~trigger.is_manual
        /\ ScheduleGet(trigger.day, trigger.hour) # None)
       => /\ slot_id = ScheduleGet(trigger.day, trigger.hour)
          /\ Len(invoked) = 1
          /\ invoked[1] = RoutineChain(slot_id)[1]

\* Thursday 15:00: slot 18, the last branch of the chain, runs run_rivalry.
C24_Witness ==
    /\ trigger.login_ok
    /\ ~trigger.is_manual
    /\ trigger.day = 3
    /\ trigger.hour = 15
    /\ slot_id = Some(18)
    /\ routine = "run_rivalry"
    /\ pc = "run_rivalry"


\* The picks of the runs that posted, in the order of the runs.
PostedPicks == SelectSeq(run_picks, LAMBDA r : r.posted)

\* C25: over the runs of run_slot_1_ad from the initial index -1 the saved
\* index is -1 until a run posts and then the feature of the last run that
\* posted, within 0..7; each run that posts advertises the feature after the
\* one of the posting run before it (the first after the last), so 8
\* posting runs in a row advertise the 8 features once each in list order.
C25_AdRotation ==
    LET P == PostedPicks
        n == Len(MONDAY_FEATURES)
    IN /\ IF P = <<>> THEN history_ads = -1
          ELSE history_ads = P[Len(P)].pick /\ history_ads \in 0..(n - 1)
       /\ \A i \in 1..Len(P) :
             P[i].pick = IF i = 1 THEN 0 ELSE (P[i - 1].pick + 1) % n
       /\ \A i \in 1..(Len(P) - n + 1) :
             /\ {P[j].pick : j \in i..(i + n - 1)} = 0..(n - 1)
             /\ \A j \in i..(i + n - 2) : P[j + 1].pick = (P[j].pick + 1) % n

\* Ten runs: one did not post, nine posted, and the ninth advertised the
\* first feature again.
C25_Witness ==
    /\ Len(run_picks) = 10
    /\ Len(PostedPicks) = 9
    /\ ~run_picks[4].posted
    /\ PostedPicks[9].pick = 0
    /\ history_ads = 0


\* C26: once both overlapping runs are through their selector call, the
\* saved game history holds every id the selector returned to either.
C26_NoRecordedIdLost ==
    (\A p \in Racers : racers[p].pc \in {"post_single_game", "done"}) =>
        \A p \in Racers : \A i \in 1..Len(racers[p].found_games) :
            racers[p].found_games[i].id \in Range(history_games)


RecordedPicks ==
    LET R == SelectSeq(run_picks, LAMBDA r : r.recorded)
    IN [i \in 1..Len(R) |-> R[i].pick]

=============================================================================
